---- MODULE Spec2Model ----
(***************************************************************************)
(* A model of colorgrad: the gradient builder (src/src/builder.rs), the    *)
(* interpolation kernels (src/src/gradient/*.rs) and the spread layer      *)
(* (src/src/core.rs).                                                      *)
(*                                                                         *)
(* Numbers.  An f32 is modelled as a fixed-point number: the integer k     *)
(* stands for k/Unit, so 1.0 is Unit; a division rounds down to the grid.  *)
(* NaN is a                                                                *)
(* separate value; the comparison operators FLt, FLe, FGt, FGe answer      *)
(* FALSE whenever an operand is NaN, as the IEEE comparisons of the source *)
(* do.  The positions a caller hands to domain() are finite; the query     *)
(* position t handed to at() ranges over the finite values and NaN.        *)
(* f32::EPSILON is EPSILON grid steps, so that two positions one step      *)
(* apart are distinct and still closer than epsilon.                       *)
(***************************************************************************)
EXTENDS Integers, Sequences, FiniteSets, TLC

VARIABLES
    \* the fields of the GradientBuilder
    colors, positions, mode, invalid_html_colors, invalid_css_gradient, clean,
    \* what the last call on the builder returned
    ret,
    \* the gradient under evaluation, and its last evaluation
    grad, query,
    \* history: the tokens given to html_colors() so far that do not parse
    bad_given,
    \* history, kept in SpecInsert: the colours and positions the calls
    \* colors(), html_colors() and domain() alone have left, as if build had
    \* never been called
    unbuilt

vars == <<colors, positions, mode, invalid_html_colors, invalid_css_gradient,
          clean, ret, grad, query, bad_given, unbuilt>>

-----------------------------------------------------------------------------
(* Bounds of the model *)

\* Spec: longest colour list the calls colors() and html_colors() build up
MaxColors == 2
\* Spec: longest slice given to domain()
MaxDomain == 2
\* Spec: longest list of unparsable tokens a builder collects
MaxInvalid == 2
\* Spec: longest slice given to one colors() or html_colors() call
MaxSlice == 2
\* SpecBuild: longest colour list and longest position list a build starts from
MaxStops == 5

\* 1.0 in grid steps: a multiple of 2, 3, 4, 6, 8, 12 and 16, so that the
\* divisions linspace makes for up to five stops are exact, and small enough
\* for the cubic polynomials of the kernels to stay within 32-bit integers
Unit == 16 * 3

\* f32::EPSILON in grid steps
EPSILON == 2

NaN == -1000000

-----------------------------------------------------------------------------
(* f32 arithmetic and comparison with NaN *)

IsNaN(x) == x = NaN

FLt(a, b) == ~IsNaN(a) /\ ~IsNaN(b) /\ a < b
FLe(a, b) == ~IsNaN(a) /\ ~IsNaN(b) /\ a <= b
FGt(a, b) == ~IsNaN(a) /\ ~IsNaN(b) /\ a > b
FGe(a, b) == ~IsNaN(a) /\ ~IsNaN(b) /\ a >= b

FAdd(a, b) == IF IsNaN(a) \/ IsNaN(b) THEN NaN ELSE a + b
FSub(a, b) == IF IsNaN(a) \/ IsNaN(b) THEN NaN ELSE a - b

-----------------------------------------------------------------------------
(* Colours: four channels, each a fixed-point number *)

Color(r, g, b, a) == <<r, g, b, a>>

Black == Color(0, 0, 0, Unit)
White == Color(Unit, Unit, Unit, Unit)
Red   == Color(Unit, 0, 0, Unit)
Blue  == Color(0, 0, Unit, Unit)

Palette == {Red, Blue}

\* the tokens given to html_colors(): one that parses, two that do not
GoodTokens == {"#00f"}
BadTokens == {"bloodred", "#zzz"}
Tokens == GoodTokens \cup BadTokens

ParsesAsColor(s) == s \in GoodTokens
ParseColor(s) == IF s = "#f00" THEN Red ELSE Blue

BlendModes == {"Rgb", "LinearRgb"}

\* Spec: the positions given to domain()
DomainValues == {0, Unit}

\* SpecBuild: the positions a build starts from; 0, 1 and 2 are one grid step
\* apart, which is closer than epsilon
PosValues == {0, 1, 2, Unit}

SeqsUpTo(S, n) == UNION {[1..k -> S] : k \in 0..n}

-----------------------------------------------------------------------------
(* utils.rs *)

\* linspace with the step (max - min) / n, which stops short of max
linspace_open(min, max, n) ==
    [i \in 1..n |-> min + ((i - 1) * (max - min)) \div n]

\* linspace(min, max, n), as a sequence of n values
linspace(min, max, n) ==
    LET d == max - min
        l == n - 1
    IN [i \in 1..n |-> IF n = 1 THEN min ELSE min + ((i - 1) * d) \div l]

-----------------------------------------------------------------------------
(* The colour conversions of the blend modes (the csscolorparser crate) *)

\* the largest r with r * r <= n, sought between lo and hi
RECURSIVE isqrt_between(_, _, _)
isqrt_between(n, lo, hi) ==
    IF lo >= hi THEN lo
    ELSE LET mid == (lo + hi + 1) \div 2
         IN IF mid * mid <= n THEN isqrt_between(n, mid, hi)
            ELSE isqrt_between(n, lo, mid - 1)
isqrt(n) == IF n <= 0 THEN 0 ELSE isqrt_between(n, 0, n)

\* one sRGB channel to linear light and back: a gamma curve, here gamma 2
to_linear(ch) == IF ch < 0 THEN ch ELSE (ch * ch) \div Unit
from_linear(ch) == IF ch < 0 THEN ch ELSE isqrt(ch * Unit)

\* Color::to_array, Color::to_linear_rgba
convert_color(c, m) ==
    IF m = "Rgb" THEN c
    ELSE <<to_linear(c[1]), to_linear(c[2]), to_linear(c[3]), c[4]>>

\* Color::new, Color::from_linear_rgba
color_from(v, m) ==
    IF m = "Rgb" THEN Color(v[1], v[2], v[3], v[4])
    ELSE Color(from_linear(v[1]), from_linear(v[2]), from_linear(v[3]), v[4])

\* utils.rs: convert_colors
convert_colors(cs, m) == [i \in 1..Len(cs) |-> convert_color(cs[i], m)]

\* a + t * (b - a) for the fraction t = num / den
lerp(a, b, num, den) == a + (num * (b - a)) \div den

\* utils.rs: interpolate_linear, linear.rs: linear_interpolation
linear_interpolation(a, b, num, den) ==
    <<lerp(a[1], b[1], num, den), lerp(a[2], b[2], num, den),
      lerp(a[3], b[3], num, den), lerp(a[4], b[4], num, den)>>

\* Color::interpolate_rgb(other, 0.5), Color::interpolate_linear_rgb(other, 0.5)
interpolate_half(c1, c2, m) ==
    color_from(linear_interpolation(convert_color(c1, m), convert_color(c2, m), 1, 2), m)

-----------------------------------------------------------------------------
(* css_gradient.rs.  A gradient string is modelled after its splitting: a  *)
(* sequence of stops, each the sequence of its space-separated tokens.  A  *)
(* token is a colour, a percentage, a number, or text that is neither.     *)

ColTok(c) == [k |-> "col", c |-> c, v |-> 0]
PctTok(n) == [k |-> "pct", c |-> Black, v |-> n]
NumTok(x) == [k |-> "num", c |-> Black, v |-> x]
BadTok == [k |-> "bad", c |-> Black, v |-> 0]

\* Stop { col: Option<Color>, pos: Option<f32> }
Stop(has_col, col, has_pos, pos) ==
    [has_col |-> has_col, col |-> col, has_pos |-> has_pos, pos |-> pos]
ColStop(c) == Stop(TRUE, c, FALSE, 0)
PosStop(x) == Stop(FALSE, Black, TRUE, x)
FullStop(c, x) == Stop(TRUE, c, TRUE, x)

\* Stop::valid
stop_valid(st) == st.has_col /\ st.has_pos

\* CSSGradientParser::new
NewParser == [dmin |-> 0, dmax |-> Unit, mode |-> "Rgb", stops |-> <<>>]

\* CSSGradientParser::set_mode
set_mode(p, m) == [p EXCEPT !.mode = m]

\* CSSGradientParser::parse_pos: the token as a position, if it is one
is_pos(tok) == tok.k \in {"pct", "num"}
parse_pos(p, tok) ==
    IF tok.k = "pct" THEN (tok.v * (p.dmax - p.dmin)) \div 100 + p.dmin
    ELSE tok.v

is_color(tok) == tok.k = "col"

\* CSSGradientParser::parse_stop: whether the stop parsed, and the stops held
parse_stop(p, toks) ==
    IF Len(toks) = 1 THEN
        IF is_color(toks[1])
        THEN [ok |-> TRUE, stops |-> Append(p.stops, ColStop(toks[1].c))]
        ELSE IF is_pos(toks[1])
        THEN [ok |-> TRUE, stops |-> Append(p.stops, PosStop(parse_pos(p, toks[1])))]
        ELSE [ok |-> FALSE, stops |-> p.stops]
    ELSE IF Len(toks) = 2 THEN
        IF is_color(toks[1]) /\ is_pos(toks[2])
        THEN [ok |-> TRUE,
              stops |-> Append(p.stops, FullStop(toks[1].c, parse_pos(p, toks[2])))]
        ELSE [ok |-> FALSE, stops |-> p.stops]
    ELSE IF Len(toks) = 3 THEN
        IF is_color(toks[1]) /\ is_pos(toks[2]) /\ is_pos(toks[3])
        THEN [ok |-> TRUE,
              stops |-> p.stops \o <<FullStop(toks[1].c, parse_pos(p, toks[2])),
                                     FullStop(toks[1].c, parse_pos(p, toks[3]))>>]
        ELSE [ok |-> FALSE, stops |-> p.stops]
    ELSE [ok |-> FALSE, stops |-> p.stops]

\* the loop over the stops of the string, from the i-th on
RECURSIVE parse_stops(_, _, _)
parse_stops(p, s, i) ==
    IF i > Len(s) THEN [ok |-> TRUE, stops |-> p.stops]
    ELSE LET r == parse_stop(p, s[i])
         IN IF ~r.ok THEN [ok |-> FALSE, stops |-> r.stops]
            ELSE parse_stops([p EXCEPT !.stops = r.stops], s, i + 1)

\* the loop that gives a colour to the stops that have none, from index i on
\* (1-based); it ends at the last stop, whose position defaults to dmax
RECURSIVE fill_colors(_, _, _, _)
fill_colors(stops, i, dmax, m) ==
    IF i > Len(stops) THEN [ok |-> TRUE, stops |-> stops]
    ELSE IF i = Len(stops) THEN
        [ok |-> TRUE,
         stops |-> IF stops[i].has_pos THEN stops
                   ELSE [stops EXCEPT ![i].has_pos = TRUE, ![i].pos = dmax]]
    ELSE IF ~stops[i].has_col THEN
        IF ~stops[i + 1].has_col THEN [ok |-> FALSE, stops |-> stops]
        ELSE fill_colors(
                 [stops EXCEPT ![i].has_col = TRUE,
                               ![i].col = interpolate_half(stops[i - 1].col,
                                                           stops[i + 1].col, m)],
                 i + 1, dmax, m)
    ELSE fill_colors(stops, i + 1, dmax, m)

\* a stop at dmin before the first stop, when that one lies above dmin
insert_first(stops, dmin) ==
    IF stops[1].pos > dmin
    THEN <<FullStop(stops[1].col, dmin)>> \o stops
    ELSE stops

\* a stop at dmax after the last stop, when that one lies below dmax
push_last(stops, dmax) ==
    IF stops[Len(stops)].pos < dmax
    THEN Append(stops, Stop(stops[Len(stops)].has_col, stops[Len(stops)].col, TRUE, dmax))
    ELSE stops

\* the index of the first stop after i that has a position, 0 if there is none
RECURSIVE next_with_pos(_, _)
next_with_pos(stops, j) ==
    IF j > Len(stops) THEN 0
    ELSE IF stops[j].has_pos THEN j
    ELSE next_with_pos(stops, j + 1)

Max(a, b) == IF a >= b THEN a ELSE b

\* the loop that gives a position to the stops that have none and makes the
\* positions non-decreasing, from index i on (1-based)
RECURSIVE fill_positions(_, _)
fill_positions(stops, i) ==
    IF i > Len(stops) THEN stops
    ELSE
        LET j == next_with_pos(stops, i + 1)
            s1 == IF ~stops[i].has_pos /\ j # 0
                  THEN [stops EXCEPT
                          ![i].has_pos = TRUE,
                          ![i].pos = stops[i - 1].pos
                                     + (stops[j].pos - stops[i - 1].pos) \div (j - i + 1)]
                  ELSE stops
            s2 == IF i > 1
                  THEN [s1 EXCEPT ![i].pos = Max(s1[i].pos, s1[i - 1].pos)]
                  ELSE s1
        IN fill_positions(s2, i + 1)

NoStops == [some |-> FALSE, colors |-> <<>>, positions |-> <<>>]

\* CSSGradientParser::parse: the parser it leaves and the stops it returns
parse(p, s) ==
    IF p.dmin >= p.dmax THEN [p |-> p, res |-> NoStops]
    ELSE
        LET r == parse_stops(p, s, 1)
            p1 == [p EXCEPT !.stops = r.stops]
        IN IF ~r.ok \/ r.stops = <<>> \/ ~r.stops[1].has_col
           THEN [p |-> p1, res |-> NoStops]
           ELSE
               LET s0 == IF r.stops[1].has_pos THEN r.stops
                         ELSE [r.stops EXCEPT ![1].has_pos = TRUE, ![1].pos = p.dmin]
                   f == fill_colors(s0, 1, p.dmax, p.mode)
               IN IF ~f.ok THEN [p |-> [p EXCEPT !.stops = f.stops], res |-> NoStops]
                  ELSE
                      LET s3 == fill_positions(
                                    push_last(insert_first(f.stops, p.dmin), p.dmax), 1)
                          p3 == [p EXCEPT !.stops = s3]
                      IN IF \E i \in 1..Len(s3) : ~stop_valid(s3[i])
                         THEN [p |-> p3, res |-> NoStops]
                         ELSE [p |-> p3,
                               res |-> [some |-> TRUE,
                                        colors |-> [i \in 1..Len(s3) |-> s3[i].col],
                                        positions |-> [i \in 1..Len(s3) |-> s3[i].pos]]]

\* css_gradient::parse(s, mode): a parser of its own for each call
css_gradient_parse(s, m) == parse(set_mode(NewParser, m), s).res

\* the gradient strings given to css()
CssInputs ==
    { <<<<ColTok(Red)>>, <<ColTok(Blue)>>>>,                         \* "#f00, #00f"
      <<<<ColTok(Red)>>, <<PctTok(50)>>, <<ColTok(Blue)>>>>,         \* "#f00, 50%, #00f"
      <<<<ColTok(Blue), PctTok(0), PctTok(50)>>, <<ColTok(Red)>>>>,  \* "#00f 0% 50%, #f00"
      <<<<ColTok(Red)>>, <<PctTok(25)>>, <<PctTok(75)>>, <<ColTok(Blue)>>>>,
      <<<<>>>>,                                                      \* ""
      <<<<ColTok(Red), BadTok>>, <<ColTok(Blue)>>>> }                \* "#f00 x, #00f"

-----------------------------------------------------------------------------
(* The interpolation kernels.  A local position inside a segment is the    *)
(* fraction num/den; a polynomial in it is evaluated over the common       *)
(* denominator and divided once.                                           *)

\* n / d rounded down, for a divisor of either sign
Div(n, d) == IF d < 0 THEN (-n) \div (-d) ELSE n \div d

Abs(x) == IF x < 0 THEN -x ELSE x

\* a colour whose channels are not finite: the result of a division by zero
NonFinite == Color(NaN, NaN, NaN, NaN)

\* the evaluation panics: an index is out of bounds
IndexPanic == Color(NaN - 1, NaN - 1, NaN - 1, NaN - 1)

\* a binary search for the first index whose position is above t
RECURSIVE binary_search_above(_, _, _, _)
binary_search_above(ps, t, low, high) ==
    IF low >= high THEN low
    ELSE LET mid == (low + high) \div 2
         IN IF FLe(ps[mid + 1], t)
            THEN binary_search_above(ps, t, mid + 1, high)
            ELSE binary_search_above(ps, t, low, mid)

\* the binary search of at(): the first index (0-based) in low..high whose
\* position is not below t
RECURSIVE binary_search(_, _, _, _)
binary_search(ps, t, low, high) ==
    IF low >= high THEN low
    ELSE LET mid == (low + high) \div 2
         IN IF FLt(ps[mid + 1], t)
            THEN binary_search(ps, t, mid + 1, high)
            ELSE binary_search(ps, t, low, mid)

\* the index low of at() after the search: 1 when the search ends at 0
segment_index(ps, t) ==
    LET low == binary_search(ps, t, 0, Len(ps))
    IN IF low = 0 THEN 1 ELSE low

(* linear.rs *)

\* LinearGradient::new
LinearGradient_new(cs, ps, m) ==
    LET conv == convert_colors(cs, m)
    IN [kind |-> "Linear",
        stops |-> [i \in 1..(IF Len(ps) < Len(cs) THEN Len(ps) ELSE Len(cs)) |->
                      [pos |-> ps[i], col |-> conv[i]]],
        domain |-> <<ps[1], ps[Len(ps)]>>,
        mode |-> m,
        first_color |-> cs[1],
        last_color |-> cs[Len(cs)]]

stop_positions(stops) == [i \in 1..Len(stops) |-> stops[i].pos]

\* the interior of LinearGradient::at without the conversion back from the
\* blend mode
Linear_interior_rgb(g, t) ==
    LET low == segment_index(stop_positions(g.stops), t)
    IN IF low >= Len(g.stops) THEN IndexPanic
       ELSE LET pos_0 == g.stops[low].pos
                pos_1 == g.stops[low + 1].pos
            IN IF pos_1 = pos_0 THEN NonFinite
               ELSE color_from(
                        linear_interpolation(g.stops[low].col, g.stops[low + 1].col,
                                             t - pos_0, pos_1 - pos_0),
                        "Rgb")

\* LinearGradient::at, after the early returns
Linear_interior(g, t) ==
    LET low == segment_index(stop_positions(g.stops), t)
    IN IF low >= Len(g.stops) THEN IndexPanic
       ELSE LET pos_0 == g.stops[low].pos
                col_0 == g.stops[low].col
                pos_1 == g.stops[low + 1].pos
                col_1 == g.stops[low + 1].col
            IN IF pos_1 = pos_0 THEN NonFinite
               ELSE color_from(
                        linear_interpolation(col_0, col_1, t - pos_0, pos_1 - pos_0),
                        g.mode)

\* LinearGradient::at without the clamp at the upper end of the domain
Linear_at_unclamped(g, t) ==
    IF FLe(t, g.domain[1]) THEN g.first_color
    ELSE IF IsNaN(t) THEN Color(0, 0, 0, Unit)
    ELSE Linear_interior(g, t)

\* LinearGradient::at
Linear_at(g, t) ==
    IF FLe(t, g.domain[1]) THEN g.first_color
    ELSE IF FGe(t, g.domain[2]) THEN g.last_color
    ELSE IF IsNaN(t) THEN Color(0, 0, 0, Unit)
    ELSE Linear_interior(g, t)

(* catmull_rom.rs *)

\* |x| to the power alpha = 0.5, for x in grid steps
sqrt_abs(x) == isqrt(Abs(x) * Unit)

\* the tangent (t2 - t1) * (a/da - b/db + c/dc); 0 where the source finds NaN,
\* which is where a divisor is 0
tangent(t1, t2, a, da, b, db, c, dc) ==
    IF da = 0 \/ db = 0 \/ dc = 0 THEN 0
    ELSE Div((t2 - t1) * (a * db * dc - b * da * dc + c * da * db), da * db * dc)

\* the coefficients [a, b, c, d] of the segment from vals[i] to vals[i + 1]
catmull_segment(vals, i) ==
    LET v0 == vals[i - 1]
        v1 == vals[i]
        v2 == vals[i + 1]
        v3 == vals[i + 2]
        t0 == 0
        t1 == t0 + sqrt_abs(v0 - v1)
        t2 == t1 + sqrt_abs(v1 - v2)
        t3 == t2 + sqrt_abs(v2 - v3)
        m1 == tangent(t1, t2, v0 - v1, t0 - t1, v0 - v2, t0 - t2, v1 - v2, t1 - t2)
        m2 == tangent(t1, t2, v1 - v2, t1 - t2, v1 - v3, t1 - t3, v2 - v3, t2 - t3)
    IN <<2 * v1 - 2 * v2 + m1 + m2, -3 * v1 + 3 * v2 - 2 * m1 - m2, m1, v1>>

\* to_catmull_segments: one segment for each pair of adjacent values
to_catmull_segments(values) ==
    LET n == Len(values)
        vals == <<2 * values[1] - values[2]>> \o values
                \o <<2 * values[n] - values[n - 1]>>
    IN [k \in 1..(n - 1) |-> catmull_segment(vals, k + 1)]

\* CatmullRomGradient::new
CatmullRomGradient_new(cs, ps, m) ==
    LET conv == convert_colors(cs, m)
        chan(j) == [i \in 1..Len(conv) |-> conv[i][j]]
        s1 == to_catmull_segments(chan(1))
        s2 == to_catmull_segments(chan(2))
        s3 == to_catmull_segments(chan(3))
        s4 == to_catmull_segments(chan(4))
    IN [kind |-> "CatmullRom",
        segments |-> [i \in 1..Len(s1) |-> <<s1[i], s2[i], s3[i], s4[i]>>],
        positions |-> ps,
        domain |-> <<ps[1], ps[Len(ps)]>>,
        mode |-> m,
        first_color |-> cs[1],
        last_color |-> cs[Len(cs)]]

\* the cubic without its linear term c t
cubic_without_tangent(seg, num, den) ==
    Div(seg[1] * num * num * num + seg[2] * num * num * den + seg[4] * den * den * den,
        den * den * den)

\* a t^3 + b t^2 + c t + d at t = num / den
cubic(seg, num, den) ==
    Div(seg[1] * num * num * num + seg[2] * num * num * den
        + seg[3] * num * den * den + seg[4] * den * den * den,
        den * den * den)

\* CatmullRomGradient::at, after the early returns
CatmullRom_interior(g, t) ==
    LET low == segment_index(g.positions, t)
    IN IF low >= Len(g.positions) \/ low > Len(g.segments) THEN IndexPanic
       ELSE LET pos0 == g.positions[low]
                pos1 == g.positions[low + 1]
                seg == g.segments[low]
                num == t - pos0
                den == pos1 - pos0
            IN IF den = 0 THEN NonFinite
               ELSE color_from(<<cubic(seg[1], num, den), cubic(seg[2], num, den),
                                 cubic(seg[3], num, den), cubic(seg[4], num, den)>>,
                               g.mode)

\* CatmullRomGradient::at
CatmullRom_at(g, t) ==
    IF FLe(t, g.domain[1]) THEN g.first_color
    ELSE IF FGe(t, g.domain[2]) THEN g.last_color
    ELSE IF IsNaN(t) THEN Color(0, 0, 0, Unit)
    ELSE CatmullRom_interior(g, t)

(* basis.rs *)

\* basis(t1, v0, v1, v2, v3) at t1 = num / den
basis(num, den, v0, v1, v2, v3) ==
    LET d3 == den * den * den
        t1 == num * den * den
        t2 == num * num * den
        t3 == num * num * num
    IN Div((d3 - 3 * t1 + 3 * t2 - t3) * v0
           + (4 * d3 - 6 * t2 + 3 * t3) * v1
           + (d3 + 3 * t1 + 3 * t2 - 3 * t3) * v2
           + t3 * v3,
           6 * d3)

\* BasisGradient::new
BasisGradient_new(cs, ps, m) ==
    [kind |-> "Basis",
     values |-> convert_colors(cs, m),
     positions |-> ps,
     domain |-> <<ps[1], ps[Len(ps)]>>,
     mode |-> m,
     first_color |-> cs[1],
     last_color |-> cs[Len(cs)]]

\* BasisGradient::at, after the early returns
Basis_interior(g, t) ==
    LET n == Len(g.positions) - 1
        low == segment_index(g.positions, t)
    IN IF low >= Len(g.positions) \/ low >= Len(g.values) THEN IndexPanic
       ELSE LET pos0 == g.positions[low]
                pos1 == g.positions[low + 1]
                val0 == g.values[low]
                val1 == g.values[low + 1]
                i == low - 1
                num == t - pos0
                den == pos1 - pos0
                zz(j) ==
                    LET v1 == val0[j]
                        v2 == val1[j]
                        v0 == IF i > 0 THEN g.values[i][j] ELSE 2 * v1 - v2
                        v3 == IF i < n - 1 THEN g.values[i + 3][j] ELSE 2 * v2 - v1
                    IN basis(num, den, v0, v1, v2, v3)
            IN IF den = 0 THEN NonFinite
               ELSE IF i < n - 1 /\ i + 3 > Len(g.values) THEN IndexPanic
               ELSE color_from(<<zz(1), zz(2), zz(3), zz(4)>>, g.mode)

\* BasisGradient::at with the clamp written as "not inside the domain"
Basis_at_not_inside(g, t) ==
    IF ~FGt(t, g.domain[1]) THEN g.first_color
    ELSE IF ~FLt(t, g.domain[2]) THEN g.last_color
    ELSE Basis_interior(g, t)

\* BasisGradient::at
Basis_at(g, t) ==
    IF FLe(t, g.domain[1]) THEN g.first_color
    ELSE IF FGe(t, g.domain[2]) THEN g.last_color
    ELSE IF IsNaN(t) THEN Color(0, 0, 0, Unit)
    ELSE Basis_interior(g, t)

(* sharp.rs *)

\* no clamp at all
clamp01_none(x) == x

\* f32::clamp(0.0, 1.0)
clamp01(x) == IF x < 0 THEN 0 ELSE IF x > Unit THEN Unit ELSE x

\* SharpGradient::new: the colours colors_in, each twice, over the domain
SharpGradient_new(colors_in, domain, smoothness) ==
    LET n == Len(colors_in)
        cols == [k \in 1..(2 * n) |-> colors_in[(k + 1) \div 2]]
        t == Div(Div(Div(clamp01(smoothness) * (domain[2] - domain[1]), Unit), n), 4)
        p == linspace(domain[1], domain[2], n + 1)
        \* the two positions pushed in round i (0-based), at j = 2i and 2i + 1
        pos(j) == IF j % 2 = 0
                  THEN p[j \div 2 + 1] + (IF j > 0 THEN t ELSE 0)
                  ELSE p[j \div 2 + 2] - (IF j < 2 * n - 1 THEN t ELSE 0)
        conv == convert_colors(cols, "Rgb")
    IN [kind |-> "Sharp",
        stops |-> [k \in 1..(2 * n) |-> [pos |-> pos(k - 1), col |-> conv[k]]],
        domain |-> domain,
        first_color |-> colors_in[1],
        last_color |-> colors_in[n]]

\* smoothstep(a, b, t) at t = num / den, one channel
smoothstep_channel(a, b, num, den) ==
    Div((b - a) * (3 * den - 2 * num) * num * num, den * den * den) + a

\* sharp.rs: smoothstep
smoothstep(a, b, num, den) ==
    <<smoothstep_channel(a[1], b[1], num, den), smoothstep_channel(a[2], b[2], num, den),
      smoothstep_channel(a[3], b[3], num, den), smoothstep_channel(a[4], b[4], num, den)>>

\* SharpGradient::at, after the early returns, with the flat parts taking
\* the colour of the next stop
Sharp_interior_next(g, t) ==
    LET low == segment_index(stop_positions(g.stops), t)
        i == low - 1
    IN IF low + 1 >= Len(g.stops) THEN g.last_color
       ELSE LET col_1 == g.stops[low + 2].col
            IN Color(col_1[1], col_1[2], col_1[3], col_1[4])

\* SharpGradient::at, after the early returns
Sharp_interior(g, t) ==
    LET low == segment_index(stop_positions(g.stops), t)
        i == low - 1
    IN IF low >= Len(g.stops) THEN IndexPanic
       ELSE LET pos_0 == g.stops[low].pos
                col_0 == g.stops[low].col
                pos_1 == g.stops[low + 1].pos
                col_1 == g.stops[low + 1].col
            IN IF i % 2 = 0 THEN Color(col_0[1], col_0[2], col_0[3], col_0[4])
               ELSE IF pos_1 = pos_0 THEN NonFinite
               ELSE smoothstep(col_0, col_1, t - pos_0, pos_1 - pos_0)

\* SharpGradient::at
Sharp_at(g, t) ==
    IF FLe(t, g.domain[1]) THEN g.first_color
    ELSE IF FGe(t, g.domain[2]) THEN g.last_color
    ELSE IF IsNaN(t) THEN Color(0, 0, 0, Unit)
    ELSE Sharp_interior(g, t)

(* core.rs: the Gradient trait *)

\* Gradient::at, by the kind of the gradient
at(g, t) ==
    IF g.kind = "Linear" THEN Linear_at(g, t)
    ELSE IF g.kind = "CatmullRom" THEN CatmullRom_at(g, t)
    ELSE IF g.kind = "Basis" THEN Basis_at(g, t)
    ELSE Sharp_at(g, t)

\* Gradient::domain
domain(g) == g.domain

(* The spread modes compute the position they hand to at() in f32, and   *)
(* the laws about them depend on what a sum keeps of its smaller operand.  *)
(* Here a number of the format has FBits significant bits over a smallest  *)
(* step of 1/16 (f32: 24 bits), and every operation rounds its exact       *)
(* result to the nearest number of the format, a tie to the even one.      *)

\* the significant bits of the format
FBits == 4

\* the smallest step of the format, in grid steps
Tick == Unit \div 16

\* the number of bits of k >= 0
RECURSIVE BitLen(_)
BitLen(k) == IF k = 0 THEN 0 ELSE 1 + BitLen(k \div 2)

RECURSIVE Pow2(_)
Pow2(n) == IF n <= 0 THEN 1 ELSE 2 * Pow2(n - 1)

\* n / d for n >= 0, d > 0, rounded to the nearest integer, a tie to even
round_half_even(n, d) ==
    LET f == n \div d
        r == n % d
    IN IF 2 * r < d THEN f
       ELSE IF 2 * r > d THEN f + 1
       ELSE IF f % 2 = 0 THEN f ELSE f + 1

\* the number of the format nearest to num / den grid steps, den > 0
f32_round(num, den) ==
    LET a == Abs(num)
        step == Tick * Pow2(BitLen(a \div (den * Tick)) - FBits)
        q == round_half_even(a, den * step) * step
    IN IF num < 0 THEN -q ELSE q

\* f32 +, -, *, /
f32_add(a, b) == IF IsNaN(a) \/ IsNaN(b) THEN NaN ELSE f32_round(a + b, 1)
f32_sub(a, b) == IF IsNaN(a) \/ IsNaN(b) THEN NaN ELSE f32_round(a - b, 1)
f32_mul(a, b) == IF IsNaN(a) \/ IsNaN(b) THEN NaN ELSE f32_round(a * b, Unit)
f32_div(a, b) ==
    IF IsNaN(a) \/ IsNaN(b) \/ b = 0 THEN NaN
    ELSE IF b < 0 THEN f32_round(-(a * Unit), -b)
    ELSE f32_round(a * Unit, b)

\* x % y of f32, the remainder that has the sign of x, for y > 0; it is exact
frem(x, y) ==
    IF IsNaN(x) THEN NaN
    ELSE IF x >= 0 THEN x % y ELSE -((-x) % y)

\* utils.rs: modulo(x, y) = (x % y + y) % y
modulo(x, y) == frem(f32_add(frem(x, y), y), y)

\* utils.rs: norm(t, a, b) = (t - a) * (1.0 / (b - a))
norm(t, a, b) == f32_mul(f32_sub(t, a), f32_div(Unit, f32_sub(b, a)))

\* the position repeat_at hands to at()
repeat_position(dmin, dmax, t) ==
    f32_add(dmin, f32_mul(modulo(norm(t, dmin, dmax), Unit), f32_sub(dmax, dmin)))

\* Gradient::repeat_at
repeat_at(g, t) ==
    LET d == domain(g)
    IN at(g, repeat_position(d[1], d[2], t))

\* f32::abs
f32_abs(x) == IF IsNaN(x) THEN NaN ELSE Abs(x)

\* the position reflect_at hands to at()
reflect_position(dmin, dmax, t) ==
    LET m == modulo(f32_add(Unit, norm(t, dmin, dmax)), 2 * Unit)
    IN f32_add(dmin, f32_mul(f32_abs(f32_sub(m, Unit)), f32_sub(dmax, dmin)))

\* Gradient::reflect_at
reflect_at(g, t) ==
    LET d == domain(g)
    IN at(g, reflect_position(d[1], d[2], t))

\* InverseGradient::new
InverseGradient_new(inner) == [kind |-> "Inverse", inner |-> inner]

\* Gradient::domain of an InverseGradient: the impl defines at() alone, the
\* domain is the trait's default
InverseGradient_domain(g) == <<0, Unit>>

\* Gradient::domain of the gradient an InverseGradient holds
inner_domain(inner) ==
    IF inner.kind = "Inverse" THEN InverseGradient_domain(inner) ELSE domain(inner)

\* InverseGradient::at
RECURSIVE InverseGradient_at(_, _)
InverseGradient_at(g, t) ==
    LET d == inner_domain(g.inner)
        u == f32_sub(d[2], f32_mul(t, f32_sub(d[2], d[1])))
    IN IF g.inner.kind = "Inverse" THEN InverseGradient_at(g.inner, u)
       ELSE at(g.inner, u)

\* Gradient::inverse
inverse(g) == InverseGradient_new(g)

\* Gradient::sharp
sharp(g, segment, smoothness) ==
    LET d == domain(g)
        ts == linspace(d[1], d[2], segment)
        cols == IF segment > 1
                THEN [k \in 1..segment |-> at(g, ts[k])]
                ELSE <<at(g, d[1]), at(g, d[1])>>
    IN SharpGradient_new(cols, d, smoothness)

-----------------------------------------------------------------------------
(* builder.rs: GradientBuilderError *)

NoError == [kind |-> "none", tokens |-> <<>>]
InvalidHtmlColors(toks) == [kind |-> "InvalidHtmlColors", tokens |-> toks]
InvalidCssGradient == [kind |-> "InvalidCssGradient", tokens |-> <<>>]
InvalidDomain == [kind |-> "InvalidDomain", tokens |-> <<>>]
InvalidStops == [kind |-> "InvalidStops", tokens |-> <<>>]

-----------------------------------------------------------------------------
(* builder.rs: prepare_build *)

\* the single colour is followed by white instead of itself
build_colors_to_white(cs) ==
    IF cs = <<>> THEN <<Black, White>>
    ELSE IF Len(cs) = 1 THEN <<cs[1], White>>
    ELSE cs

\* the colours the table is made of: black and white when there are none,
\* the single colour twice when there is one
build_colors(cs) ==
    IF cs = <<>> THEN <<Black, White>>
    ELSE IF Len(cs) = 1 THEN <<cs[1], cs[1]>>
    ELSE cs

\* only the first window of two adjacent positions is looked at
windows_first_decreasing(ps) == Len(ps) >= 2 /\ FGt(ps[1], ps[2])

\* some window of two adjacent positions is decreasing
windows_decreasing(ps) ==
    \E i \in 1..(Len(ps) - 1) : FGt(ps[i], ps[i + 1])

\* the two positions given as a range are decreasing
range_decreasing(ps) == FGt(ps[1], ps[2])

\* the two positions given as a range are not increasing
range_not_increasing(ps) == FGe(ps[1], ps[2])

\* the positions of the n colours, or the failure of the position step
build_positions(ps, n) ==
    IF ps = <<>> THEN [ok |-> TRUE, positions |-> linspace(0, Unit, n)]
    ELSE IF Len(ps) = n THEN
        IF windows_decreasing(ps) THEN [ok |-> FALSE, positions |-> <<>>]
        ELSE [ok |-> TRUE, positions |-> ps]
    ELSE IF Len(ps) = 2 THEN
        IF range_not_increasing(ps) THEN [ok |-> FALSE, positions |-> <<>>]
        ELSE [ok |-> TRUE, positions |-> linspace(ps[1], ps[2], n)]
    ELSE [ok |-> FALSE, positions |-> <<>>]

\* no stop is skipped
skip_stop_never(prev, pos, next) == FALSE

\* the stop at pos, between prev and next, is skipped
skip_stop(prev, pos, next) ==
    FLt(FAdd(FSub(pos, prev), FSub(next, pos)), EPSILON)

\* the loop that keeps the first stop, and every stop that is not at the
\* position of the one before it
RECURSIVE coalesce_earlier(_, _, _, _)
coalesce_earlier(ps, cs, i, prev) ==
    IF i > Len(ps) THEN [positions |-> <<>>, colors |-> <<>>]
    ELSE
        LET rest == coalesce_earlier(ps, cs, i + 1, ps[i])
        IN IF i > 1 /\ FLt(FSub(ps[i], prev), EPSILON) THEN rest
           ELSE [positions |-> <<ps[i]>> \o rest.positions,
                 colors |-> <<cs[i]>> \o rest.colors]

\* the loop over the stops, from index i on, with prev as the loop left it:
\* the positions and colours pushed
RECURSIVE coalesce(_, _, _, _)
coalesce(ps, cs, i, prev) ==
    IF i > Len(ps) THEN [positions |-> <<>>, colors |-> <<>>]
    ELSE
        LET last_idx == Len(ps)
            next == IF i = last_idx THEN ps[last_idx] ELSE ps[i + 1]
            rest == coalesce(ps, cs, i + 1, ps[i])
        IN IF skip_stop(prev, ps[i], next) THEN rest
           ELSE [positions |-> <<ps[i]>> \o rest.positions,
                 colors |-> <<cs[i]>> \o rest.colors]

\* only an empty table makes the build fail
too_few_stops_empty(cs) == Len(cs) < 1

\* the stop count that makes the build fail
too_few_stops(cs) == Len(cs) < 2

\* prepare_build on the builder b: the builder it leaves, its result, and the
\* value of its local variable positions (the positions before the coalescing)
prepare_build(b) ==
    IF b.clean THEN [b |-> b, err |-> NoError, raw |-> <<>>]
    ELSE IF b.invalid_html_colors # <<>> THEN
        [b |-> b, err |-> InvalidHtmlColors(b.invalid_html_colors), raw |-> <<>>]
    ELSE IF b.invalid_css_gradient THEN
        [b |-> b, err |-> InvalidCssGradient, raw |-> <<>>]
    ELSE
        LET cols == build_colors(b.colors)
            pos == build_positions(b.positions, Len(cols))
        IN IF ~pos.ok THEN [b |-> b, err |-> InvalidDomain, raw |-> <<>>]
           ELSE
               LET kept == coalesce(pos.positions, cols, 1, pos.positions[1])
                   b1 == [b EXCEPT !.colors = kept.colors,
                                   !.positions = kept.positions]
               IN IF too_few_stops(kept.colors)
                  THEN [b |-> b1, err |-> InvalidStops, raw |-> pos.positions]
                  ELSE [b |-> [b1 EXCEPT !.clean = TRUE], err |-> NoError,
                        raw |-> pos.positions]

-----------------------------------------------------------------------------
(* The builder as a record, and the value the last call returned *)

Builder == [colors |-> colors, positions |-> positions, mode |-> mode,
            invalid_html_colors |-> invalid_html_colors,
            invalid_css_gradient |-> invalid_css_gradient, clean |-> clean]

NoGradient == [kind |-> "none"]
NoQuery == [op |-> "none", t |-> 0, out |-> Black]

GradientKinds == {"Linear", "CatmullRom", "Basis"}

\* the constructor panics: positions[0] or colors[0] of an empty table, or
\* values[1] of a table of one stop in to_catmull_segments
Panicked == [kind |-> "panic"]

\* T::new(&gb.colors, &gb.positions, gb.mode)
Gradient_new(kind, cs, ps, m) ==
    IF Len(cs) = 0 \/ Len(ps) = 0 THEN Panicked
    ELSE IF kind = "Linear" THEN LinearGradient_new(cs, ps, m)
    ELSE IF kind = "CatmullRom"
         THEN IF Len(cs) < 2 THEN Panicked ELSE CatmullRomGradient_new(cs, ps, m)
    ELSE BasisGradient_new(cs, ps, m)

\* what build returns: the error of prepare_build, or the gradient made of
\* the table prepare_build left in the builder
build_result(kind, r) ==
    IF r.err # NoError THEN NoGradient
    ELSE Gradient_new(kind, r.b.colors, r.b.positions, r.b.mode)

\* a call that returns the builder itself
ReturnsSelf(op) ==
    [op |-> op, err |-> NoError, grad |-> NoGradient, raw |-> <<>>,
     in_colors |-> <<>>, in_positions |-> <<>>, in_clean |-> FALSE]

\* what build returned, with the colours, the positions and the clean flag the
\* builder held when build was called
Returns(kind, r, b) ==
    [op |-> "build", err |-> r.err, grad |-> build_result(kind, r), raw |-> r.raw,
     in_colors |-> b.colors, in_positions |-> b.positions, in_clean |-> b.clean]

-----------------------------------------------------------------------------
(* builder.rs: the operations *)

\* GradientBuilder::new
\* the history of a specification that keeps none
NoHistory == [colors |-> <<>>, positions |-> <<>>]

Init ==
    /\ colors = <<>>
    /\ positions = <<>>
    /\ mode = "Rgb"
    /\ invalid_html_colors = <<>>
    /\ invalid_css_gradient = FALSE
    /\ clean = FALSE
    /\ ret = ReturnsSelf("new")
    /\ grad = NoGradient
    /\ query = NoQuery
    /\ bad_given = <<>>
    /\ unbuilt = NoHistory

\* GradientBuilder::colors
Colors(cs) ==
    /\ cs = <<>> \/ Len(colors) + Len(cs) <= MaxColors
    /\ colors' = colors \o cs
    /\ clean' = FALSE
    /\ ret' = ReturnsSelf("colors")
    /\ UNCHANGED <<positions, mode, invalid_html_colors, invalid_css_gradient, grad, query, bad_given,
                   unbuilt>>

\* the colours of the tokens that parse, in order
RECURSIVE parsed_colors(_)
parsed_colors(toks) ==
    IF toks = <<>> THEN <<>>
    ELSE IF ParsesAsColor(Head(toks))
         THEN <<ParseColor(Head(toks))>> \o parsed_colors(Tail(toks))
         ELSE parsed_colors(Tail(toks))

\* the first token that does not parse, alone
RECURSIVE unparsed_first(_)
unparsed_first(toks) ==
    IF toks = <<>> THEN <<>>
    ELSE IF ParsesAsColor(Head(toks)) THEN unparsed_first(Tail(toks))
    ELSE <<Head(toks)>>

\* the tokens that do not parse, in order
RECURSIVE unparsed_tokens(_)
unparsed_tokens(toks) ==
    IF toks = <<>> THEN <<>>
    ELSE IF ParsesAsColor(Head(toks))
         THEN unparsed_tokens(Tail(toks))
         ELSE <<Head(toks)>> \o unparsed_tokens(Tail(toks))

\* GradientBuilder::html_colors
HtmlColors(toks) ==
    /\ Len(colors) + Len(parsed_colors(toks)) <= MaxColors
    /\ Len(invalid_html_colors) + Len(unparsed_tokens(toks)) <= MaxInvalid
    /\ colors' = colors \o parsed_colors(toks)
    /\ invalid_html_colors' = invalid_html_colors \o unparsed_tokens(toks)
    /\ clean' = FALSE
    /\ ret' = ReturnsSelf("html_colors")
    /\ bad_given' = bad_given \o SelectSeq(toks, LAMBDA x : x \in BadTokens)
    /\ UNCHANGED <<positions, mode, invalid_css_gradient, grad, query, unbuilt>>

\* GradientBuilder::domain
Domain(ps) ==
    /\ positions' = ps
    /\ clean' = FALSE
    /\ ret' = ReturnsSelf("domain")
    /\ UNCHANGED <<colors, mode, invalid_html_colors, invalid_css_gradient, grad, query, bad_given,
                   unbuilt>>

\* GradientBuilder::mode
Mode(m) ==
    /\ mode' = m
    /\ ret' = ReturnsSelf("mode")
    /\ UNCHANGED <<colors, positions, invalid_html_colors,
                   invalid_css_gradient, clean, grad, query, bad_given,
                   unbuilt>>

\* GradientBuilder::css
Css(s) ==
    LET r == css_gradient_parse(s, mode)
    IN /\ IF r.some
          THEN /\ invalid_css_gradient' = FALSE
               /\ colors' = r.colors
               /\ positions' = r.positions
          ELSE /\ invalid_css_gradient' = TRUE
               /\ UNCHANGED <<colors, positions>>
       /\ clean' = FALSE
       /\ ret' = ReturnsSelf("css")
       /\ UNCHANGED <<mode, invalid_html_colors, grad, query, bad_given,
                   unbuilt>>

\* GradientBuilder::build::<T>, T the gradient kind
Build(kind) ==
    LET r == prepare_build(Builder)
    IN /\ colors' = r.b.colors
       /\ positions' = r.b.positions
       /\ clean' = r.b.clean
       /\ ret' = Returns(kind, r, Builder)
       /\ UNCHANGED <<mode, invalid_html_colors, invalid_css_gradient, grad, query, bad_given,
                   unbuilt>>

Next ==
    \/ \E cs \in SeqsUpTo(Palette, MaxSlice) : Colors(cs)
    \/ \E toks \in SeqsUpTo(Tokens, MaxSlice) : HtmlColors(toks)
    \/ \E ps \in SeqsUpTo(DomainValues, MaxDomain) : Domain(ps)
    \/ \E m \in BlendModes : Mode(m)
    \/ \E s \in CssInputs : Css(s)
    \/ \E kind \in GradientKinds : Build(kind)

Spec == Init /\ [][Next]_vars

-----------------------------------------------------------------------------
(* SpecBuild: build as a function of the colours and positions it starts   *)
(* from.  The builder has been given the colours cs and the positions ps.  *)

InitBuild ==
    /\ colors \in SeqsUpTo(Palette, MaxStops)
    /\ positions \in SeqsUpTo(PosValues, MaxStops)
    /\ mode = "Rgb"
    /\ invalid_html_colors = <<>>
    /\ invalid_css_gradient = FALSE
    /\ clean = FALSE
    /\ ret = ReturnsSelf("domain")
    /\ grad = NoGradient
    /\ query = NoQuery
    /\ bad_given = <<>>
    /\ unbuilt = NoHistory

NextBuild == \E kind \in GradientKinds : Build(kind)

SpecBuild == InitBuild /\ [][NextBuild]_vars

-----------------------------------------------------------------------------
(* SpecRebuild: a builder that is built again.  The builder has been given *)
(* the colours cs, the positions ps and the mode Rgb.  After a build that  *)
(* succeeded, a call that changes no input clears the clean flag:          *)
(* colors(&[]), or domain() with the positions the builder holds.          *)

\* SpecRebuild: longest colour list and longest position list of the builder
MaxRebuildStops == 4

InitRebuild ==
    /\ colors \in SeqsUpTo(Palette, MaxRebuildStops)
    /\ positions \in SeqsUpTo(PosValues, MaxRebuildStops)
    /\ mode = "Rgb"
    /\ invalid_html_colors = <<>>
    /\ invalid_css_gradient = FALSE
    /\ clean = FALSE
    /\ ret = ReturnsSelf("mode")
    /\ grad = NoGradient
    /\ query = NoQuery
    /\ bad_given = <<>>
    /\ unbuilt = NoHistory

\* colors(&[]) on a builder that is clean
ColorsNone == clean /\ Colors(<<>>)

\* domain(gb.get_positions()) on a builder that is clean
DomainSame == clean /\ Domain(positions)

NextRebuild ==
    \/ \E kind \in GradientKinds : Build(kind)
    \/ ColorsNone
    \/ DomainSame

SpecRebuild == InitRebuild /\ [][NextRebuild]_vars

-----------------------------------------------------------------------------
\* Sequences of colors(), html_colors() and domain() calls on a new builder
\* with successful builds in between: `unbuilt` follows what the setter calls
\* alone leave, the builder's own fields follow the code.

MaxInsertColors == 4

\* a build that returned an error ends the sequence: it was the final build
BuildSucceededSoFar == ~(ret.op = "build" /\ ret.err # NoError)

\* GradientBuilder::colors, with the history
ColorsTracked(cs) ==
    /\ BuildSucceededSoFar
    /\ Len(unbuilt.colors) + Len(cs) <= MaxInsertColors
    /\ colors' = colors \o cs
    /\ clean' = FALSE
    /\ ret' = ReturnsSelf("colors")
    /\ unbuilt' = [unbuilt EXCEPT !.colors = @ \o cs]
    /\ UNCHANGED <<positions, mode, invalid_html_colors, invalid_css_gradient,
                   grad, query, bad_given>>

\* GradientBuilder::html_colors, with the history
HtmlColorsTracked(toks) ==
    /\ BuildSucceededSoFar
    /\ Len(unbuilt.colors) + Len(parsed_colors(toks)) <= MaxInsertColors
    /\ Len(invalid_html_colors) + Len(unparsed_tokens(toks)) <= MaxInvalid
    /\ colors' = colors \o parsed_colors(toks)
    /\ invalid_html_colors' = invalid_html_colors \o unparsed_tokens(toks)
    /\ clean' = FALSE
    /\ ret' = ReturnsSelf("html_colors")
    /\ bad_given' = bad_given \o SelectSeq(toks, LAMBDA x : x \in BadTokens)
    /\ unbuilt' = [unbuilt EXCEPT !.colors = @ \o parsed_colors(toks)]
    /\ UNCHANGED <<positions, mode, invalid_css_gradient, grad, query>>

\* GradientBuilder::domain, with the history
DomainTracked(ps) ==
    /\ BuildSucceededSoFar
    /\ positions' = ps
    /\ clean' = FALSE
    /\ ret' = ReturnsSelf("domain")
    /\ unbuilt' = [unbuilt EXCEPT !.positions = ps]
    /\ UNCHANGED <<colors, mode, invalid_html_colors, invalid_css_gradient,
                   grad, query, bad_given>>

\* GradientBuilder::build::<T> in such a sequence
BuildInserted(kind) == BuildSucceededSoFar /\ Build(kind)

\* html_colors is given tokens that parse: after one that does not, every
\* build fails (builder.rs 202-206) and none can be inserted
NextInsert ==
    \/ \E cs \in SeqsUpTo(Palette, MaxSlice) : ColorsTracked(cs)
    \/ \E toks \in SeqsUpTo(GoodTokens, MaxSlice) : HtmlColorsTracked(toks)
    \/ \E ps \in SeqsUpTo(DomainValues, MaxDomain) : DomainTracked(ps)
    \/ \E kind \in GradientKinds : BuildInserted(kind)

SpecInsert == Init /\ [][NextInsert]_vars

-----------------------------------------------------------------------------
(* SpecEval: the evaluation of a gradient.  A builder was given the        *)
(* colours cs, the positions ps and the mode m, and its build succeeded;   *)
(* the gradient it returned is evaluated, or made sharp and evaluated.     *)
(* An evaluation takes &self and leaves the gradient as it is: a run makes *)
(* one evaluation of a gradient, since a second one starts from the same   *)
(* gradient and reaches nothing new.                                       *)

\* SpecEval: the longest colour list and position list of the builder
MaxEvalStops == 3
\* SpecEval: the largest segment count given to sharp()
MaxSegments == 3

\* the positions of the builder whose gradient is evaluated
EvalPosValues == {0, Unit, 2 * Unit}

\* the query positions: quarters of 1.0 from below 0 to above 2, the numbers
\* next to 0 and the number next below 1.0, and NaN
TValues ==
    {k * (Unit \div 4) : k \in (-2)..10}
        \cup {-(Unit \div 16), Unit \div 16, Unit - Unit \div 16} \cup {NaN}

\* the smoothness values given to sharp(): 0, 0.5 and some above 1
Smoothness == {0, Unit \div 2, 2 * Unit}

FreshBuilder(cs, ps, m) ==
    [colors |-> cs, positions |-> ps, mode |-> m, invalid_html_colors |-> <<>>,
     invalid_css_gradient |-> FALSE, clean |-> FALSE]

InitEval ==
    \E cs \in SeqsUpTo(Palette, MaxEvalStops), ps \in SeqsUpTo(EvalPosValues, MaxEvalStops),
       m \in BlendModes, kind \in GradientKinds :
        LET r == prepare_build(FreshBuilder(cs, ps, m))
        IN /\ r.err = NoError
           /\ colors = r.b.colors
           /\ positions = r.b.positions
           /\ mode = m
           /\ invalid_html_colors = <<>>
           /\ invalid_css_gradient = FALSE
           /\ clean = r.b.clean
           /\ ret = Returns(kind, r, FreshBuilder(cs, ps, m))
           /\ grad = build_result(kind, r)
           /\ query = NoQuery
           /\ bad_given = <<>>
           /\ unbuilt = NoHistory

builder_vars == <<colors, positions, mode, invalid_html_colors,
                  invalid_css_gradient, clean, ret, bad_given, unbuilt>>

\* Gradient::at
At(t) ==
    /\ query = NoQuery
    /\ query' = [op |-> "at", t |-> t, out |-> at(grad, t)]
    /\ UNCHANGED <<builder_vars, grad>>

\* Gradient::repeat_at
RepeatAt(t) ==
    /\ query = NoQuery
    /\ query' = [op |-> "repeat_at", t |-> t, out |-> repeat_at(grad, t)]
    /\ UNCHANGED <<builder_vars, grad>>

\* Gradient::reflect_at
ReflectAt(t) ==
    /\ query = NoQuery
    /\ query' = [op |-> "reflect_at", t |-> t, out |-> reflect_at(grad, t)]
    /\ UNCHANGED <<builder_vars, grad>>

\* Gradient::inverse on the gradient the builder returned, then
\* InverseGradient::at
InverseAt(t) ==
    /\ grad.kind # "Sharp"
    /\ query = NoQuery
    /\ query' = [op |-> "inverse_at", t |-> t, out |-> InverseGradient_at(inverse(grad), t)]
    /\ UNCHANGED <<builder_vars, grad>>

\* Gradient::inverse twice on the gradient the builder returned, then
\* InverseGradient::at
InverseInverseAt(t) ==
    /\ grad.kind # "Sharp"
    /\ query = NoQuery
    /\ query' = [op |-> "inverse_inverse_at", t |-> t,
                 out |-> InverseGradient_at(inverse(inverse(grad)), t)]
    /\ UNCHANGED <<builder_vars, grad>>

\* Gradient::sharp, on the gradient the builder returned
Sharp(segment, smoothness) ==
    /\ grad.kind # "Sharp"
    /\ query = NoQuery
    /\ grad' = sharp(grad, segment, smoothness)
    /\ query' = NoQuery
    /\ UNCHANGED builder_vars

NextEval ==
    \/ \E t \in TValues : At(t)
    \/ \E t \in TValues : RepeatAt(t)
    \/ \E t \in TValues : ReflectAt(t)
    \/ \E t \in TValues : InverseAt(t)
    \/ \E t \in TValues : InverseInverseAt(t)
    \/ \E n \in 0..MaxSegments, s \in Smoothness : Sharp(n, s)

SpecEval == InitEval /\ [][NextEval]_vars

-----------------------------------------------------------------------------
(* SpecColors: the iterator colors(n) returns for a built gradient, under  *)
(* any interleaving of next() and next_back().  `query` holds the iterator *)
(* `it`, the call made last and what it returned, and the history the      *)
(* claims are about: the count asked for, the numbers of items the front   *)
(* and the back have yielded, and whether the iterator was empty before    *)
(* the call.                                                               *)

\* the largest count given to colors()
MaxTotal == 3

\* GradientColors::new; usize as f32 is the count in grid steps
GradientColors_new(total) ==
    [a_idx |-> 0, b_idx |-> total,
     max |-> IF total = 0 THEN 0 ELSE (total - 1) * Unit]

\* the position of sample idx: dmin + (idx as f32 * (dmax - dmin)) / self.max
sample_position(g, it, idx) ==
    LET d == domain(g)
    IN f32_add(d[1], f32_div(f32_mul(idx * Unit, f32_sub(d[2], d[1])), it.max))

\* Iterator::next of GradientColors
GradientColors_next(g, it) ==
    IF it.a_idx = it.b_idx THEN [it |-> it, some |-> FALSE, t |-> 0, out |-> Black]
    ELSE LET t == sample_position(g, it, it.a_idx)
         IN [it |-> [it EXCEPT !.a_idx = @ + 1], some |-> TRUE, t |-> t, out |-> at(g, t)]

\* next_back that samples at b_idx before it is decremented
GradientColors_next_back_late(g, it) ==
    IF it.a_idx = it.b_idx THEN [it |-> it, some |-> FALSE, t |-> 0, out |-> Black]
    ELSE LET t == sample_position(g, it, it.b_idx)
         IN [it |-> [it EXCEPT !.b_idx = @ - 1], some |-> TRUE, t |-> t, out |-> at(g, t)]

\* DoubleEndedIterator::next_back of GradientColors
GradientColors_next_back(g, it) ==
    IF it.a_idx = it.b_idx THEN [it |-> it, some |-> FALSE, t |-> 0, out |-> Black]
    ELSE LET it1 == [it EXCEPT !.b_idx = @ - 1]
             t == sample_position(g, it1, it1.b_idx)
         IN [it |-> it1, some |-> TRUE, t |-> t, out |-> at(g, t)]

\* ExactSizeIterator::len of GradientColors
GradientColors_len(it) == it.b_idx - it.a_idx

\* Gradient::colors
ColorsOf(n) ==
    /\ query = NoQuery
    /\ query' = [op |-> "colors", t |-> 0, out |-> Black, some |-> FALSE,
                 it |-> GradientColors_new(n), total |-> n, fronts |-> 0, backs |-> 0,
                 was_empty |-> FALSE]
    /\ UNCHANGED <<builder_vars, grad>>

\* a call of next() on the iterator
IterNext ==
    /\ query.op \in {"colors", "next", "next_back"}
    /\ LET r == GradientColors_next(grad, query.it)
       IN query' = [query EXCEPT !.op = "next", !.t = r.t, !.out = r.out, !.some = r.some,
                                 !.it = r.it,
                                 !.fronts = IF r.some THEN @ + 1 ELSE @,
                                 !.was_empty = (GradientColors_len(query.it) = 0)]
    /\ UNCHANGED <<builder_vars, grad>>

\* a call of next_back() on the iterator
IterNextBack ==
    /\ query.op \in {"colors", "next", "next_back"}
    /\ LET r == GradientColors_next_back(grad, query.it)
       IN query' = [query EXCEPT !.op = "next_back", !.t = r.t, !.out = r.out,
                                 !.some = r.some, !.it = r.it,
                                 !.backs = IF r.some THEN @ + 1 ELSE @,
                                 !.was_empty = (GradientColors_len(query.it) = 0)]
    /\ UNCHANGED <<builder_vars, grad>>

NextColors ==
    \/ \E n \in 0..MaxTotal : ColorsOf(n)
    \/ IterNext
    \/ IterNextBack

SpecColors == InitEval /\ [][NextColors]_vars

-----------------------------------------------------------------------------
(* SpecHardEdge: one evaluation of a gradient built from up to four stops  *)
(* whose positions may repeat, so that the table can hold two stops at the *)
(* same position inside the domain: a hard edge.  The sharp gradients made *)
(* of the two-stop linear ones are evaluated too; their tables repeat each *)
(* inner boundary when the smoothness is 0.                                *)

\* SpecHardEdge: the longest colour list and position list of the builder
MaxEdgeStops == 4

\* SpecHardEdge: the largest segment count given to sharp()
MaxEdgeSegments == 2

\* the colours and the positions of the builder
EdgePalette == {Black, Red}
EdgePosValues == {0, Unit \div 2, Unit}

\* the query positions: the stops and the quarters between them
EdgeTValues == {k * (Unit \div 4) : k \in 0..4}

InitHardEdge ==
    \E cs \in SeqsUpTo(EdgePalette, MaxEdgeStops),
       ps \in SeqsUpTo(EdgePosValues, MaxEdgeStops),
       m \in BlendModes, kind \in GradientKinds :
        LET r == prepare_build(FreshBuilder(cs, ps, m))
        IN /\ r.err = NoError
           /\ colors = r.b.colors
           /\ positions = r.b.positions
           /\ mode = m
           /\ invalid_html_colors = <<>>
           /\ invalid_css_gradient = FALSE
           /\ clean = r.b.clean
           /\ ret = Returns(kind, r, FreshBuilder(cs, ps, m))
           /\ grad = build_result(kind, r)
           /\ query = NoQuery
           /\ bad_given = <<>>
           /\ unbuilt = NoHistory

\* at(), and sharp() of the linear gradients of two stops
NextHardEdge ==
    \/ \E t \in EdgeTValues : At(t)
    \/ \E segment \in 1..MaxEdgeSegments, smoothness \in Smoothness :
        /\ grad.kind = "Linear"
        /\ Len(positions) = 2
        /\ Sharp(segment, smoothness)

SpecHardEdge == InitHardEdge /\ [][NextHardEdge]_vars

-----------------------------------------------------------------------------
(* gradient/gimp.rs and gimp_gradient.rs: the gradient of a GIMP gradient  *)
(* file.  The repository holds two implementations of GimpGradient::at,    *)
(* the one of the Gradient trait (gradient/gimp.rs, f32) and the one of    *)
(* GradientBase (gimp_gradient.rs, f64); SpecGimp evaluates a parsed file  *)
(* with either.  The files drawn have segments of the blending types       *)
(* linear and step and of the colouring type RGB, adjacent over [0, 1].    *)

\* SpecGimp: the largest number of segments of a file
MaxGimpSegments == 2

\* calc_linear_factor(middle, pos) for middle = (mpos - lpos) / seg_len and
\* pos = (t - lpos) / seg_len, in grid steps of the factor
calc_linear_factor(seg, t) ==
    IF t - seg.lpos <= seg.mpos - seg.lpos
    THEN IF seg.mpos - seg.lpos <= 0 THEN 0
         ELSE Div(Unit * (t - seg.lpos), 2 * (seg.mpos - seg.lpos))
    ELSE IF seg.rpos - seg.mpos <= 0 THEN Unit
         ELSE Unit \div 2 + Div(Unit * (t - seg.mpos), 2 * (seg.rpos - seg.mpos))

\* the colour of the segment seg at t: the blending factor, then the blend
\* of lcolor and rcolor in RGB
segment_color(seg, t) ==
    LET degenerate == seg.rpos - seg.lpos <= 0
        f == IF seg.blending_type = "Step"
             THEN (IF degenerate \/ 2 * (t - seg.lpos) >= 2 * (seg.mpos - seg.lpos)
                   THEN Unit ELSE 0)
             ELSE IF degenerate THEN Unit \div 2
             ELSE calc_linear_factor(seg, t)
    IN linear_interpolation(seg.lcolor, seg.rcolor, f, Unit)

\* the binary search of GimpGradient::at (gradient/gimp.rs): the index mid
\* (0-based) when the loop ends
RECURSIVE gimp_search(_, _, _, _, _)
gimp_search(segments, t, low, high, mid) ==
    IF low >= high THEN mid
    ELSE LET m == (low + high) \div 2
         IN IF FGt(t, segments[m + 1].rpos) THEN gimp_search(segments, t, m + 1, high, m)
            ELSE IF FLt(t, segments[m + 1].lpos) THEN gimp_search(segments, t, low, m, m)
            ELSE m

\* GimpGradient::at of gradient/gimp.rs
GimpGradient_at(g, t) ==
    IF FLt(t, g.dmin) \/ FGt(t, g.dmax) \/ IsNaN(t) THEN Color(0, 0, 0, Unit)
    ELSE segment_color(g.segments[gimp_search(g.segments, t, 0, Len(g.segments), 0) + 1], t)

\* GimpGradient::at of gimp_gradient.rs
GimpGradient_at_f64(g, t) ==
    IF FLt(t, g.dmin) THEN g.segments[1].lcolor
    ELSE IF FGt(t, g.dmax) THEN g.segments[Len(g.segments)].rcolor
    ELSE LET holding == {k \in 1..Len(g.segments) :
                            FLe(g.segments[k].lpos, t) /\ FLe(t, g.segments[k].rpos)}
         IN IF holding = {} THEN g.segments[1].lcolor
            ELSE segment_color(
                     g.segments[CHOOSE k \in holding : \A j \in holding : k <= j], t)

\* parse_ggr: a file of n segments that share the blending type, with the
\* colours cs at their n + 1 ends
parse_ggr(cs, blending_type) ==
    LET n == Len(cs) - 1
        ends == linspace(0, Unit, n + 1)
    IN [kind |-> "Gimp",
        segments |-> [k \in 1..n |->
                         [lcolor |-> cs[k], rcolor |-> cs[k + 1],
                          lpos |-> ends[k], mpos |-> (ends[k] + ends[k + 1]) \div 2,
                          rpos |-> ends[k + 1], blending_type |-> blending_type]],
        dmin |-> 0,
        dmax |-> Unit]

InitGimp ==
    /\ \E n \in 1..MaxGimpSegments, blending_type \in {"Linear", "Step"} :
        \E cs \in [1..(n + 1) -> EdgePalette] : grad = parse_ggr(cs, blending_type)
    /\ colors = <<>>
    /\ positions = <<>>
    /\ mode = "Rgb"
    /\ invalid_html_colors = <<>>
    /\ invalid_css_gradient = FALSE
    /\ clean = FALSE
    /\ ret = ReturnsSelf("new")
    /\ query = NoQuery
    /\ bad_given = <<>>
    /\ unbuilt = NoHistory

\* Gradient::at of the GimpGradient
GimpAt(t) ==
    /\ query = NoQuery
    /\ query' = [op |-> "at", t |-> t, out |-> GimpGradient_at(grad, t)]
    /\ UNCHANGED <<builder_vars, grad>>

\* GradientBase::at of the GimpGradient
GimpAtF64(t) ==
    /\ query = NoQuery
    /\ query' = [op |-> "at_f64", t |-> t, out |-> GimpGradient_at_f64(grad, t)]
    /\ UNCHANGED <<builder_vars, grad>>

NextGimp == \E t \in TValues : GimpAt(t) \/ GimpAtF64(t)

SpecGimp == InitGimp /\ [][NextGimp]_vars

-----------------------------------------------------------------------------
(* SpecParse: one CSSGradientParser used for several parses.  The parser   *)
(* is held in query.p; a parse records the parser it was called on, the    *)
(* string and the result.                                                  *)

\* the parses made on one parser before it is reset
MaxParses == 2

\* the domains given to set_domain, one of them refused by its assertion
ParserDomains == {<<0, Unit>>, <<-Unit, Unit>>, <<Unit, 0>>}

\* CSSGradientParser::set_domain: assert!(min < max) unwinds before the
\* assignments
set_domain(p, min, max) ==
    IF min < max THEN [p EXCEPT !.dmin = min, !.dmax = max] ELSE p

\* CSSGradientParser::reset
reset(p) == [p EXCEPT !.dmin = 0, !.dmax = Unit, !.mode = "Rgb", !.stops = <<>>]

\* the state of the parser and of its last call
ParserState(op, p, before, s, res, parses) ==
    [op |-> op, p |-> p, before |-> before, s |-> s, res |-> res,
     parses |-> parses]

InitParse ==
    /\ query = ParserState("new", NewParser, NewParser, <<>>, NoStops, 0)
    /\ colors = <<>>
    /\ positions = <<>>
    /\ mode = "Rgb"
    /\ invalid_html_colors = <<>>
    /\ invalid_css_gradient = FALSE
    /\ clean = FALSE
    /\ ret = ReturnsSelf("new")
    /\ grad = NoGradient
    /\ bad_given = <<>>
    /\ unbuilt = NoHistory

\* gp.set_domain(min, max)
ParserSetDomain(min, max) ==
    /\ query' = ParserState("set_domain", set_domain(query.p, min, max), query.p,
                            <<>>, NoStops, query.parses)
    /\ UNCHANGED <<builder_vars, grad>>

\* gp.set_mode(mode)
ParserSetMode(m) ==
    /\ query' = ParserState("set_mode", set_mode(query.p, m), query.p,
                            <<>>, NoStops, query.parses)
    /\ UNCHANGED <<builder_vars, grad>>

\* gp.reset()
ParserReset ==
    /\ query' = ParserState("reset", reset(query.p), query.p, <<>>, NoStops, 0)
    /\ UNCHANGED <<builder_vars, grad>>

\* gp.parse(s)
ParserParse(s) ==
    /\ query.parses < MaxParses
    /\ LET r == parse(query.p, s)
       IN query' = ParserState("parse", r.p, query.p, s, r.res, query.parses + 1)
    /\ UNCHANGED <<builder_vars, grad>>

NextParse ==
    \/ \E d \in ParserDomains : ParserSetDomain(d[1], d[2])
    \/ \E m \in BlendModes : ParserSetMode(m)
    \/ ParserReset
    \/ \E s \in CssInputs : ParserParse(s)

SpecParse == InitParse /\ [][NextParse]_vars

-----------------------------------------------------------------------------
(* linearize.rs.  SpecLinearize runs linearize(g, threshold) step by step:  *)
(* `query` holds the call in progress, that is the squared threshold, the  *)
(* 17 seeds, the index of the next seed interval, the frames of the calls  *)
(* of subdivide that have not returned (the innermost last), the list      *)
(* `positions`, and at the end the positions before the pruning (sampled)  *)
(* and the gradient returned (h).  The sources are built over a domain     *)
(* wide enough for a seed interval to be halved MAX_DEPTH + 1 times on the *)
(* grid, as an interval of f32 numbers can be; they are linear gradients   *)
(* in both blend modes, whose colours bend in RGB under LinearRgb, and the *)
(* hard-edged gradients sharp() makes of them.                             *)

MAX_DEPTH == 7

\* the number of seeds, linspace(min, max, 17)
SeedCount == 17

\* SpecLinearize: the longest colour list of the builder
MaxLinStops == 2

\* the width of the domain of the sources
LinWidth == (SeedCount - 1) * Pow2(MAX_DEPTH + 1)

\* the segment counts given to sharp(); 0 stands for the gradient as built
LinSegments == {0, 3, 5}

\* the thresholds, in steps of 0.005: 0 and 0.2 lie outside of [0.005, 0.1]
ThresholdValues == {0, 10, 40}

\* powf(threshold.clamp(0.005, 0.1), 2.0), in squared steps of 0.005
threshold_sq(threshold) ==
    LET c == IF threshold < 1 THEN 1 ELSE IF threshold > 20 THEN 20 ELSE threshold
    IN c * c

\* color_diff_sq, in squared grid steps
color_diff_sq(c1, c2) ==
    LET dr == c1[1] - c2[1]
        dg == c1[2] - c2[2]
        db == c1[3] - c2[3]
        da == c1[4] - c2[4]
    IN dr * dr + dg * dg + db * db + da * da

\* color_diff_sq(c1, c2) > thresh_sq, both sides in the same unit: a grid
\* step is 1 / Unit and a step of the threshold is 1 / 200
exceeds(c1, c2, thresh_sq) ==
    color_diff_sq(c1, c2) * 200 * 200 > thresh_sq * Unit * Unit

\* the call linearize(g, threshold), up to the loop over the seed intervals
Linearize(threshold) ==
    /\ query = NoQuery
    /\ query' = [op |-> "linearize",
                 thresh_sq |-> threshold_sq(threshold),
                 initial_stops |-> linspace(domain(grad)[1], domain(grad)[2], SeedCount),
                 i |-> 1,
                 frames |-> <<>>,
                 positions |-> <<>>,
                 sampled |-> <<>>,
                 h |-> NoGradient]
    /\ UNCHANGED <<builder_vars, grad>>

\* one round of the loop: push t0 and call subdivide(g, t0, t1, .., 0, ..)
SeedInterval ==
    /\ query.op = "linearize"
    /\ query.frames = <<>>
    /\ query.i < Len(query.initial_stops)
    /\ query' = [query EXCEPT
                    !.positions = Append(@, query.initial_stops[query.i]),
                    !.frames = <<[t0 |-> query.initial_stops[query.i],
                                  t1 |-> query.initial_stops[query.i + 1],
                                  depth |-> 0, pc |-> "enter"]>>,
                    !.i = @ + 1]
    /\ UNCHANGED <<builder_vars, grad>>

\* the frames after a step of the innermost call of subdivide, and the
\* midpoint it pushes, if any, for a depth limit of `limit`
subdivide_to(g, frames, thresh_sq, limit) ==
    LET n == Len(frames)
        f == frames[n]
        rest == SubSeq(frames, 1, n - 1)
        mid == (f.t0 + f.t1) \div 2
        c_mid_linear == linear_interpolation(at(g, f.t0), at(g, f.t1), 1, 2)
        call(t0, t1) == [t0 |-> t0, t1 |-> t1, depth |-> f.depth + 1, pc |-> "enter"]
    IN IF f.pc = "enter"
       THEN IF f.depth >= limit THEN [frames |-> rest, push |-> <<>>]
            ELSE IF exceeds(at(g, mid), c_mid_linear, thresh_sq)
            THEN [frames |-> rest \o <<[f EXCEPT !.pc = "left"], call(f.t0, mid)>>,
                  push |-> <<>>]
            ELSE [frames |-> rest, push |-> <<>>]
       ELSE IF f.pc = "left"
       THEN [frames |-> rest \o <<[f EXCEPT !.pc = "right"], call(mid, f.t1)>>,
             push |-> <<mid>>]
       ELSE [frames |-> rest, push |-> <<>>]

\* subdivide that recurses one level deeper
subdivide_deeper(g, frames, thresh_sq) ==
    subdivide_to(g, frames, thresh_sq, MAX_DEPTH + 1)

\* subdivide
subdivide(g, frames, thresh_sq) ==
    subdivide_to(g, frames, thresh_sq, MAX_DEPTH)

\* a step of the innermost call of subdivide
Subdivide ==
    /\ query.op = "linearize"
    /\ query.frames # <<>>
    /\ LET r == subdivide(grad, query.frames, query.thresh_sq)
       IN query' = [query EXCEPT !.frames = r.frames, !.positions = @ \o r.push]
    /\ UNCHANGED <<builder_vars, grad>>

\* remove_unnecessary from index i (0-based) on, after pos[last_idx] was kept
RECURSIVE remove_unnecessary_from(_, _, _, _, _)
remove_unnecessary_from(g, pos, thresh_sq, i, last_idx) ==
    IF i >= Len(pos) - 1 THEN <<pos[Len(pos)]>>
    ELSE LET t_prev == pos[last_idx + 1]
             t_next == pos[i + 2]
             t_curr == pos[i + 1]
             predicted == linear_interpolation(at(g, t_prev), at(g, t_next),
                                               t_curr - t_prev, t_next - t_prev)
         IN IF exceeds(at(g, t_curr), predicted, thresh_sq)
            THEN <<t_curr>> \o remove_unnecessary_from(g, pos, thresh_sq, i + 1, i)
            ELSE remove_unnecessary_from(g, pos, thresh_sq, i + 1, last_idx)

\* remove_unnecessary
remove_unnecessary(g, pos, thresh_sq) ==
    IF Len(pos) <= 2 THEN pos
    ELSE <<pos[1]>> \o remove_unnecessary_from(g, pos, thresh_sq, 1, 0)

\* the rest of linearize once the loop has ended: push max, sort, dedup (two
\* positions closer than 1e-6 are the same grid position), prune and build
linearize_rest(g, q) ==
    LET pushed == Append(q.positions, domain(g)[2])
        sorted == SortSeq(pushed, LAMBDA a, b : a < b)
        RECURSIVE dedup_from(_)
        dedup_from(k) ==
            IF k > Len(sorted) THEN <<>>
            ELSE (IF k = 1 \/ sorted[k] # sorted[k - 1] THEN <<sorted[k]>> ELSE <<>>)
                     \o dedup_from(k + 1)
        pruned == remove_unnecessary(g, dedup_from(1), q.thresh_sq)
        cols == [k \in 1..Len(pruned) |-> at(g, pruned[k])]
    IN [q EXCEPT !.op = "linearized",
                 !.positions = pruned,
                 !.sampled = pushed,
                 !.h = LinearGradient_new(cols, pruned, "Rgb")]

\* linearize returns
LinearizeReturn ==
    /\ query.op = "linearize"
    /\ query.frames = <<>>
    /\ query.i = Len(query.initial_stops)
    /\ query' = linearize_rest(grad, query)
    /\ UNCHANGED <<builder_vars, grad>>

InitLinearize ==
    \E cs \in SeqsUpTo(Palette, MaxLinStops), m \in BlendModes, n \in LinSegments :
        LET b == FreshBuilder(cs, <<0, LinWidth>>, m)
            r == prepare_build(b)
        IN /\ r.err = NoError
           /\ colors = r.b.colors
           /\ positions = r.b.positions
           /\ mode = m
           /\ invalid_html_colors = <<>>
           /\ invalid_css_gradient = FALSE
           /\ clean = r.b.clean
           /\ ret = Returns("Linear", r, b)
           /\ grad = IF n = 0 THEN build_result("Linear", r)
                     ELSE sharp(build_result("Linear", r), n, 0)
           /\ query = NoQuery
           /\ bad_given = <<>>
           /\ unbuilt = NoHistory

NextLinearize ==
    \/ \E threshold \in ThresholdValues : Linearize(threshold)
    \/ SeedInterval
    \/ Subdivide
    \/ LinearizeReturn

SpecLinearize == InitLinearize /\ [][NextLinearize]_vars

-----------------------------------------------------------------------------
(* The evaluation of a gradient: the clamp law and NaN *)

\* the colour of the first and of the last stop of the gradient under
\* evaluation: of the table the builder holds, or of the sharp gradient's own
FirstStopColor == IF grad.kind = "Sharp" THEN grad.stops[1].col ELSE colors[1]
LastStopColor ==
    IF grad.kind = "Sharp" THEN grad.stops[Len(grad.stops)].col
    ELSE colors[Len(colors)]

\* C1: for every linear, Catmull-Rom, basis and sharp gradient, at(t) is the
\* colour of the first stop for every t at or below the lower end of the
\* domain, and the colour of the last stop for every t at or above the upper
\* end of the domain.
C1_ClampLaw ==
    query.op = "at" =>
        /\ (~IsNaN(query.t) /\ query.t <= domain(grad)[1]) => query.out = FirstStopColor
        /\ (~IsNaN(query.t) /\ query.t >= domain(grad)[2]) => query.out = LastStopColor

\* a sharp gradient of stops of two colours, evaluated above its domain
C1_Witness ==
    /\ query.op = "at"
    /\ grad.kind = "Sharp"
    /\ ~IsNaN(query.t)
    /\ query.t > domain(grad)[2]
    /\ FirstStopColor # LastStopColor
    /\ query.out = LastStopColor

-----------------------------------------------------------------------------
(* The build: what prepare_build returns and leaves in the builder *)

\* build was called on a builder that was not clean
FirstBuild == ret.op = "build" /\ ~ret.in_clean

\* the number of colours of the table before the coalescing: two when the
\* builder holds no colour or one, else the number it holds
TableSize(cs) == IF Len(cs) < 2 THEN 2 ELSE Len(cs)

\* the colours of the table before the coalescing
TableColors(cs) ==
    IF Len(cs) = 0 THEN <<Black, White>>
    ELSE IF Len(cs) = 1 THEN <<cs[1], cs[1]>>
    ELSE cs

NonDecreasing(ps) == \A i \in 1..(Len(ps) - 1) : ps[i] <= ps[i + 1]

\* the stop i of the positions ps survives: the stop before it and the stop
\* after it (the stop itself, at either end) are at least epsilon apart
Survives(ps, i) ==
    LET before == IF i = 1 THEN ps[1] ELSE ps[i - 1]
        after == IF i = Len(ps) THEN ps[Len(ps)] ELSE ps[i + 1]
    IN after - before >= EPSILON

\* the indexes of the stops that survive, in order
Survivors(ps) == SelectSeq([i \in 1..Len(ps) |-> i], LAMBDA i : Survives(ps, i))

\* the stop i is the earliest of its group of stops at the same position
Earliest(ps, i) == i = 1 \/ ps[i] - ps[i - 1] >= EPSILON

EarliestOfGroups(ps) == SelectSeq([i \in 1..Len(ps) |-> i], LAMBDA i : Earliest(ps, i))

\* the elements of the sequence at the indexes idx
Pick(seq, idx) == [k \in 1..Len(idx) |-> seq[idx[k]]]

\* ps are n positions from a to b, evenly spaced to the grid
EvenlySpaced(ps, a, b, n) ==
    /\ Len(ps) = n
    /\ ps[1] = a
    /\ ps[n] = b
    /\ \A i \in 1..n :
          /\ (n - 1) * (ps[i] - a) <= (i - 1) * (b - a)
          /\ (i - 1) * (b - a) < (n - 1) * (ps[i] - a) + (n - 1)

C4_DecreasingFails ==
    (FirstBuild /\ Len(ret.in_colors) >= 2
                /\ Len(ret.in_positions) = Len(ret.in_colors)) =>
        IF \E i \in 1..(Len(ret.in_positions) - 1) :
               ret.in_positions[i] > ret.in_positions[i + 1]
        THEN ret.err = InvalidDomain /\ ret.grad = NoGradient
        ELSE ret.err # InvalidDomain /\ ret.raw = ret.in_positions

\* three positions whose last pair alone is decreasing
C4_Witness ==
    /\ FirstBuild
    /\ Len(ret.in_colors) = 3
    /\ Len(ret.in_positions) = 3
    /\ ret.in_positions[1] <= ret.in_positions[2]
    /\ ret.in_positions[2] > ret.in_positions[3]
    /\ ret.err = InvalidDomain

C5_InteriorGroup ==
    /\ FirstBuild
    /\ ret.err = NoError
    /\ Len(ret.in_positions) = 5
    /\ Len(ret.in_colors) = 5
    /\ ret.in_positions[1] < ret.in_positions[2]
    /\ ret.in_positions[2] = ret.in_positions[4]
    /\ ret.in_positions[4] < ret.in_positions[5]
    /\ ret.in_colors[2] # ret.in_colors[3]
    /\ colors = Pick(ret.in_colors, <<1, 2, 4, 5>>)

\* C6: build fails with InvalidStops exactly when fewer than two stops survive
\* the coalescing: the count is that of the coalesced table, not of the stops
\* the coalescing started from.
C6_TooFewStops ==
    (FirstBuild /\ ret.err # InvalidDomain) =>
        /\ Len(ret.raw) >= 2
        /\ ret.err = InvalidStops <=> Len(Survivors(ret.raw)) < 2
        /\ ret.err = InvalidStops => ret.grad = NoGradient

\* three colours at three positions, of which one stop survives
C6_Witness ==
    /\ FirstBuild
    /\ ret.err = InvalidStops
    /\ Len(ret.in_colors) = 3
    /\ ret.raw = ret.in_positions
    /\ Len(Survivors(ret.raw)) = 1
    /\ ret.raw[1] < ret.raw[3]

\* the position-count rule of the build that returned, with n taken as the
\* number of colours: the positions before the coalescing are evenly spaced
\* over [0, 1] when no position was given, the given ones when there are n of
\* them that never decrease, evenly spaced over the range when two
\* increasing ones were given; any other count fails with InvalidDomain
PositionCountRule(n) ==
    LET ps == ret.in_positions
        size == TableSize(ret.in_colors)
    IN IF Len(ps) = 0
       THEN ret.err # InvalidDomain /\ EvenlySpaced(ret.raw, 0, Unit, size)
       ELSE IF Len(ps) = n /\ NonDecreasing(ps)
       THEN ret.err # InvalidDomain /\ ret.raw = ps
       ELSE IF Len(ps) = 2 /\ n # 2 /\ ps[1] < ps[2]
       THEN ret.err # InvalidDomain /\ EvenlySpaced(ret.raw, ps[1], ps[2], size)
       ELSE Len(ps) \notin {n, 2} => ret.err = InvalidDomain

\* C7, as the specification states it: the position-count rule holds with N
\* the number of colours the caller supplied, for every N >= 1.
C7_RuleBySuppliedColours ==
    (FirstBuild /\ Len(ret.in_colors) >= 1) => PositionCountRule(Len(ret.in_colors))

\* C7, as the code has it: the position-count rule holds with N the number of
\* colours of the table, which is two when the caller supplied one colour or
\* none; one position given for one colour fails with InvalidDomain.
C7_RuleByTableColours ==
    /\ FirstBuild => PositionCountRule(TableSize(ret.in_colors))
    /\ (FirstBuild /\ Len(ret.in_colors) = 1 /\ Len(ret.in_positions) = 1) =>
            ret.err = InvalidDomain

\* one colour and one position
C7_Witness ==
    /\ FirstBuild
    /\ Len(ret.in_colors) = 1
    /\ Len(ret.in_positions) = 1
    /\ ret.err = InvalidDomain

\* three colours spaced over a range of two positions
C7_RangeWitness ==
    /\ FirstBuild
    /\ Len(ret.in_colors) = 3
    /\ ret.in_positions = <<0, Unit>>
    /\ ret.raw = <<0, Unit \div 2, Unit>>

\* C8, as the specification states it: two positions [a, b] with a >= b make
\* build fail with InvalidDomain, whatever the number of colours.
C8_RangeAlwaysInvalidDomain ==
    (FirstBuild /\ Len(ret.in_positions) = 2
                /\ ret.in_positions[1] >= ret.in_positions[2]) =>
        ret.err = InvalidDomain

\* C8, as the code has it: two positions [a, b] with a >= b make build fail
\* whatever the number of colours: with InvalidStops when a = b and the
\* builder holds at most two colours, with InvalidDomain otherwise.
C8_RangeFails ==
    (FirstBuild /\ Len(ret.in_positions) = 2
                /\ ret.in_positions[1] >= ret.in_positions[2]) =>
        /\ ret.grad = NoGradient
        /\ ret.err = IF ret.in_positions[1] = ret.in_positions[2]
                        /\ Len(ret.in_colors) <= 2
                     THEN InvalidStops
                     ELSE InvalidDomain

\* two equal positions and three colours
C8_Witness ==
    /\ FirstBuild
    /\ Len(ret.in_colors) = 3
    /\ Len(ret.in_positions) = 2
    /\ ret.in_positions[1] = ret.in_positions[2]
    /\ ret.err = InvalidDomain

\* two equal positions and two colours
C8_EqualWitness ==
    /\ FirstBuild
    /\ Len(ret.in_colors) = 2
    /\ Len(ret.in_positions) = 2
    /\ ret.in_positions[1] = ret.in_positions[2]
    /\ ret.err = InvalidStops

\* C9: when some token given to html_colors() did not parse, build fails with
\* InvalidHtmlColors carrying every such token of all the calls, in the order
\* given, whatever else is wrong with the builder.
C9_InvalidHtmlColorsFirst ==
    (ret.op = "build" /\ bad_given # <<>>) =>
        /\ ret.err = InvalidHtmlColors(bad_given)
        /\ ret.grad = NoGradient

\* two different tokens that do not parse, a CSS gradient that does not
\* parse, and a range of two decreasing positions
C9_Witness ==
    /\ ret.op = "build"
    /\ Len(bad_given) = 2
    /\ bad_given[1] # bad_given[2]
    /\ invalid_css_gradient
    /\ positions = <<Unit, 0>>
    /\ ret.err = InvalidHtmlColors(bad_given)

\* C11: a build that follows a successful build yields the same colours and
\* positions, also when a call that changes no input (colors(&[]), or
\* domain() with the positions the builder holds) cleared the clean flag in
\* between.
C11_RebuildIsIdempotent ==
    [][((\/ ret.op = "build" /\ ret.err = NoError
         \/ ret.op \in {"colors", "domain"})
        /\ ret'.op = "build") =>
           (ret'.err = NoError /\ colors' = colors /\ positions' = positions)]_vars

\* adjacent positions are equal or at least epsilon apart
WellSeparated(ps) ==
    \A i \in 1..(Len(ps) - 1) : ps[i] = ps[i + 1] \/ ps[i + 1] - ps[i] >= EPSILON

\* the rebuild of a table whose adjacent positions are equal or at least
\* epsilon apart yields the same colours and positions
C11_RebuildOfSeparated ==
    [][((\/ ret.op = "build" /\ ret.err = NoError
         \/ ret.op \in {"colors", "domain"})
        /\ WellSeparated(positions)
        /\ ret'.op = "build") =>
           (ret'.err = NoError /\ colors' = colors /\ positions' = positions)]_vars

\* C10: a build that fails leaves the colours and the positions of the
\* builder as they were, and a build that follows a failed one fails with
\* the same error.
C10_FailedBuildLeavesBuilder ==
    [][/\ (ret'.op = "build" /\ ret'.err # NoError) =>
              (colors' = colors /\ positions' = positions)
       /\ (ret.op = "build" /\ ret.err # NoError /\ ret'.op = "build") =>
              ret'.err = ret.err]_vars

-----------------------------------------------------------------------------
\* what one build of the colours and positions of the history returns
BuildOfUnbuilt ==
    prepare_build([colors |-> unbuilt.colors, positions |-> unbuilt.positions,
                   mode |-> mode, invalid_html_colors |-> invalid_html_colors,
                   invalid_css_gradient |-> FALSE, clean |-> FALSE])

\* C12: a successful build inserted anywhere in a sequence of colors(),
\* html_colors() and domain() calls does not change what the final build
\* returns: every build returns what a single build of the colours and
\* positions the setter calls alone left would return (the same error, or
\* the same table).
C12_InsertedBuildIsInvisible ==
    ret.op = "build" =>
        /\ ret.err = BuildOfUnbuilt.err
        /\ ret.err = NoError =>
              /\ colors = BuildOfUnbuilt.b.colors
              /\ positions = BuildOfUnbuilt.b.positions

\* the case of C12's first example: a fourth colour appended after a build
\* of three
C12_Witness ==
    /\ ret.op = "build"
    /\ Len(unbuilt.colors) = 4
    /\ unbuilt.positions = <<>>
    /\ ret.err = InvalidDomain

-----------------------------------------------------------------------------
\* the table of a builder that was given fewer than two colours
DefaultedTable ==
    /\ Len(colors) = 2
    /\ Len(positions) = 2
    /\ positions = (IF ret.in_positions = <<>> THEN <<0, Unit>> ELSE ret.in_positions)
    /\ ret.in_colors = <<>> => colors = <<Black, White>>
    /\ Len(ret.in_colors) = 1 => colors = <<ret.in_colors[1], ret.in_colors[1]>>

C13_DefaultWitness ==
    /\ ret.in_colors = <<>>
    /\ ret.in_positions = <<Unit, 2 * Unit>>
    /\ positions = <<Unit, 2 * Unit>>
    /\ colors = <<Black, White>>

-----------------------------------------------------------------------------
\* the table built when css(s) is called in the mode m and built in it
CssTable(s, m) ==
    LET r == css_gradient_parse(s, m)
    IN prepare_build(FreshBuilder(r.colors, r.positions, m)).b

\* C14: the colour of a position-only stop of a CSS gradient is the midpoint
\* of its neighbours in the blend mode the built gradient uses, whatever the
\* order of the calls: a build of what css(s) left, in whatever mode the
\* builder had then, makes the table that css(s) called in the mode of the
\* build makes.
C14_CssModeOrder ==
    (ret.op = "build" /\ ret.err = NoError /\ ~ret.in_clean) =>
        \A s \in CssInputs, m0 \in BlendModes :
            LET r == css_gradient_parse(s, m0)
            IN (/\ r.some
                /\ ret.in_colors = r.colors
                /\ ret.in_positions = r.positions) =>
                    /\ css_gradient_parse(s, mode).some
                    /\ colors = CssTable(s, mode).colors
                    /\ positions = CssTable(s, mode).positions

-----------------------------------------------------------------------------
\* C15: inside the domain the spread modes agree with at(): repeat_at(t) is
\* at(t) for every t with min <= t < max, and reflect_at(t) is at(t) for
\* every t with min <= t <= max.
C15_SpreadInsideDomain ==
    LET d == domain(grad)
    IN /\ (query.op = "repeat_at" /\ ~IsNaN(query.t)
             /\ d[1] <= query.t /\ query.t < d[2]) => query.out = at(grad, query.t)
       /\ (query.op = "reflect_at" /\ ~IsNaN(query.t)
             /\ d[1] <= query.t /\ query.t <= d[2]) => query.out = at(grad, query.t)

-----------------------------------------------------------------------------
\* C16: repeat_at has the period width = max - min: repeat_at(t) is
\* repeat_at(t + width) for every t, the negative ones included; and
\* repeat_at(max) is the colour at min.
C16_RepeatIsPeriodic ==
    LET d == domain(grad)
    IN (query.op = "repeat_at" /\ ~IsNaN(query.t)) =>
          /\ query.out = repeat_at(grad, f32_add(query.t, f32_sub(d[2], d[1])))
          /\ query.t = d[2] => query.out = at(grad, d[1])

-----------------------------------------------------------------------------
\* C17: reflect_at is mirror-symmetric at both ends of the domain: for every
\* e, reflect_at(min + e) is reflect_at(min - e) and reflect_at(max + e) is
\* reflect_at(max - e); and the position handed to at() lies in [min, max].
\* The position queried is read as min + e, and as max + e.
C17_ReflectIsSymmetric ==
    LET d == domain(grad)
        e_min == f32_sub(query.t, d[1])
        e_max == f32_sub(query.t, d[2])
        p == reflect_position(d[1], d[2], query.t)
    IN (query.op = "reflect_at" /\ ~IsNaN(query.t)) =>
          /\ f32_add(d[1], e_min) = query.t =>
                query.out = reflect_at(grad, f32_sub(d[1], e_min))
          /\ f32_add(d[2], e_max) = query.t =>
                query.out = reflect_at(grad, f32_sub(d[2], e_max))
          /\ ~IsNaN(p) /\ d[1] <= p /\ p <= d[2]

\* reflect_at was asked about a position past the upper end of a domain that
\* does not start at 0, and answered with a colour that is not the last one
C17_Witness ==
    /\ query.op = "reflect_at"
    /\ domain(grad) = <<Unit, 2 * Unit>>
    /\ query.t = 2 * Unit + Unit \div 4
    /\ query.out # LastStopColor
    /\ query.out = at(grad, 2 * Unit - Unit \div 4)

-----------------------------------------------------------------------------
\* C18: the inverse of a gradient has the domain (min, max) of the gradient,
\* and at every t it is the gradient at max - t + min, whatever the domain.
C18_InverseMirrorsDomain ==
    LET d == domain(grad)
    IN query.op = "inverse_at" =>
          /\ InverseGradient_domain(inverse(grad)) = d
          /\ query.out = at(grad, f32_add(f32_sub(d[2], query.t), d[1]))

-----------------------------------------------------------------------------
\* C19: the inverse of the inverse of a gradient is the gradient: the same
\* colour at every t, and the same domain.
C19_InverseIsInvolution ==
    query.op = "inverse_inverse_at" =>
        /\ InverseGradient_domain(inverse(inverse(grad))) = domain(grad)
        /\ query.out = at(grad, query.t)

-----------------------------------------------------------------------------
\* the colour of the gradient the builder returned at sample k (from 0) of n
SampleOf(k, n) ==
    LET d == domain(ret.grad)
    IN at(ret.grad, d[1] + (k * (d[2] - d[1])) \div (n - 1))

\* t is inside part k (from 0) of n, or at its right end when that is not max
InPart(t, k, n) ==
    LET d == domain(ret.grad)
        w == d[2] - d[1]
    IN /\ n * d[1] + k * w < n * t
       /\ n * t <= n * d[1] + (k + 1) * w
       /\ t < d[2]

\* C20: g.sharp(n, 0.0) with n >= 2, g of domain (min, max): for every k in
\* 0..n-1 and every t strictly inside the k-th of the n equal parts of the
\* domain, at(t) is the colour of g at min + k * (max - min) / (n - 1); at a
\* point where two parts meet, at(t) is the colour of the part to its left.
C20_SharpHardSegments ==
    (query.op = "at" /\ ~IsNaN(query.t)) =>
        \A n \in 2..MaxSegments :
            (grad.kind = "Sharp" /\ Len(grad.stops) = 2 * n
                 /\ grad = sharp(ret.grad, n, 0)) =>
                \A k \in 0..(n - 1) :
                    InPart(query.t, k, n) => query.out = SampleOf(k, n)

\* a gradient of three hard parts of three different colours was evaluated
\* inside its middle part
C20_Witness ==
    /\ query.op = "at"
    /\ grad = sharp(ret.grad, 3, 0)
    /\ InPart(query.t, 1, 3)
    /\ query.out = SampleOf(1, 3)
    /\ SampleOf(0, 3) # SampleOf(1, 3)
    /\ SampleOf(1, 3) # SampleOf(2, 3)

\* a gradient of two hard parts was evaluated where the two meet
C20_BoundaryWitness ==
    /\ query.op = "at"
    /\ grad = sharp(ret.grad, 2, 0)
    /\ 2 * query.t = domain(ret.grad)[1] + domain(ret.grad)[2]
    /\ query.out = SampleOf(0, 2)
    /\ SampleOf(0, 2) # SampleOf(1, 2)

-----------------------------------------------------------------------------
\* the index (from 0) of the sample the last call yielded
YieldedIndex ==
    IF query.op = "next" THEN query.fronts - 1 ELSE query.total - query.backs

\* the position of sample i of n that C21 states
StatedPosition(i, n) ==
    LET d == domain(grad)
    IN IF n = 1 THEN d[1]
       ELSE f32_add(d[1], f32_div(f32_mul(i * Unit, f32_sub(d[2], d[1])), (n - 1) * Unit))

\* C21: colors(n) yields n colours, the i-th (from 0) being at(min + i *
\* (max - min) / (n - 1)): the first is the colour at min and the last the
\* colour at max; colors(0) yields nothing and colors(1) yields the colour
\* at min.
C21_ColorsAreEvenSamples ==
    query.op \in {"next", "next_back"} =>
        /\ query.some =>
              /\ query.out = at(grad, StatedPosition(YieldedIndex, query.total))
              /\ YieldedIndex = 0 => query.out = at(grad, domain(grad)[1])
              /\ (YieldedIndex = query.total - 1 /\ query.total > 1) =>
                    query.out = at(grad, domain(grad)[2])
        /\ ~query.some => query.fronts + query.backs = query.total
        /\ query.fronts + query.backs <= query.total

\* a gradient whose first colour is not black was asked for one colour
C21_OneColourCase ==
    /\ query.op = "next"
    /\ query.total = 1
    /\ query.some
    /\ at(grad, domain(grad)[1]) = Red

-----------------------------------------------------------------------------
\* C22: under any interleaving of next() and next_back() on colors(n), len()
\* is n minus the number of items yielded so far; every sample index of
\* 0..n-1 is yielded once, by the front ascending from 0 and by the back
\* descending from n-1; and an exhausted iterator returns None to both calls
\* ever after.
C22_DoubleEndedIterator ==
    query.op \in {"colors", "next", "next_back"} =>
        /\ GradientColors_len(query.it) = query.total - (query.fronts + query.backs)
        /\ query.fronts + query.backs <= query.total
        /\ (query.op # "colors" /\ query.some) =>
              /\ YieldedIndex \in 0..(query.total - 1)
              /\ query.t = sample_position(grad, query.it, YieldedIndex)
              /\ ~query.was_empty
        /\ (query.op # "colors" /\ query.was_empty) =>
              /\ ~query.some
              /\ GradientColors_len(query.it) = 0
        /\ (query.op # "colors" /\ ~query.some) => query.fronts + query.backs = query.total

\* both ends have yielded, the iterator is exhausted and was asked again
C22_Witness ==
    /\ query.op = "next_back"
    /\ query.total = 3
    /\ query.fronts = 2
    /\ query.backs = 1
    /\ query.was_empty
    /\ ~query.some


-----------------------------------------------------------------------------
(* linearize: the depth of the recursion and the length of the list *)

\* the positions pushed so far that lie strictly inside seed interval k
MidpointsOf(k) ==
    {j \in 1..Len(query.positions) :
        /\ query.positions[j] > query.initial_stops[k]
        /\ query.positions[j] < query.initial_stops[k + 1]}

\* while linearize runs: no call of subdivide is deeper than MAX_DEPTH, no
\* seed interval has received more than 2^MAX_DEPTH - 1 = 127 midpoints, and
\* the list holds at most 17 + 16 * 127 = 2049 positions; the list handed to
\* the pruning obeys the same bound
RecursionBounded ==
    /\ query.op = "linearize" =>
        /\ \A j \in 1..Len(query.frames) :
            /\ query.frames[j].depth <= MAX_DEPTH
            /\ query.frames[j].depth = j - 1
        /\ \A k \in 1..(SeedCount - 1) :
            Cardinality(MidpointsOf(k)) <= Pow2(MAX_DEPTH) - 1
        /\ Len(query.positions) <= 17 + 16 * 127
    /\ query.op = "linearized" => Len(query.sampled) <= 17 + 16 * 127

\* the steps a call of subdivide at depth d takes at most: one when d is
\* MAX_DEPTH, otherwise the test, the push and the return around two calls
RECURSIVE CallSteps(_)
CallSteps(d) == IF d >= MAX_DEPTH THEN 1 ELSE 3 + 2 * CallSteps(d + 1)

\* the steps the frame f still takes once the calls above it have returned
FrameSteps(f) ==
    IF f.pc = "enter" THEN CallSteps(f.depth)
    ELSE IF f.pc = "left" THEN 2 + CallSteps(f.depth + 1)
    ELSE 1

RECURSIVE SumFrameSteps(_)
SumFrameSteps(frames) ==
    IF frames = <<>> THEN 0
    ELSE FrameSteps(Head(frames)) + SumFrameSteps(Tail(frames))

\* a bound on the steps left to the end of the loop over the seed intervals
StepsLeft(q) ==
    (Len(q.initial_stops) - q.i) * (1 + CallSteps(0)) + SumFrameSteps(q.frames)

\* a step of linearize before its return takes StepsLeft down, and StepsLeft
\* is never negative
Progresses ==
    (query.op = "linearize" /\ query'.op = "linearize") =>
        (0 <= StepsLeft(query') /\ StepsLeft(query') < StepsLeft(query))

\* C23: linearize terminates for every source gradient, the discontinuous
\* ones included: subdivide never recurses deeper than MAX_DEPTH = 7, so a
\* seed interval receives at most 127 midpoints and the list never holds
\* more than 17 + 16 * 127 = 2049 positions before the pruning; every step
\* of the loop and of subdivide brings the end of the loop nearer.
C23_LinearizeTerminates == []RecursionBounded /\ [][Progresses]_vars

\* a call on a hard-edged source in which the recursion goes down to
\* MAX_DEPTH, where only the depth limit ends it
C23_Witness ==
    /\ grad.kind = "Sharp"
    /\ query.op = "linearize"
    /\ Len(query.frames) = MAX_DEPTH + 1
    /\ query.frames[MAX_DEPTH + 1].depth = MAX_DEPTH

\* such a call has returned
C23_ReturnedWitness ==
    /\ grad.kind = "Sharp"
    /\ query.op = "linearized"
    /\ Len(query.sampled) > SeedCount + MAX_DEPTH - 1


-----------------------------------------------------------------------------
\* the positions of the stops of the gradient linearize returned
KeptStops == {query.h.stops[k].pos : k \in 1..Len(query.h.stops)}

\* C24: once linearize has returned h, every position t it sampled (the 17
\* seeds and every midpoint pushed) has the squared RGBA distance between
\* g.at(t) and h.at(t) at most the square of the clamped threshold: the
\* distance is 0 at the stops h keeps, and a position the pruning removed is
\* within the threshold of the line between the neighbours that survive.
C24_SampledWithinThreshold ==
    query.op = "linearized" =>
        \A j \in 1..Len(query.sampled) :
            LET t == query.sampled[j]
            IN /\ ~exceeds(at(grad, t), at(query.h, t), query.thresh_sq)
               /\ t \in KeptStops => color_diff_sq(at(grad, t), at(query.h, t)) = 0


-----------------------------------------------------------------------------
(* The linear kernel inside the domain *)

\* the gradient is the linear one the builder made, evaluated at a number
\* strictly inside its domain
LinearInside ==
    /\ query.op = "at"
    /\ grad.kind = "Linear"
    /\ grad = ret.grad
    /\ ~IsNaN(query.t)
    /\ domain(grad)[1] < query.t
    /\ query.t < domain(grad)[2]

\* C25: for a linear gradient and t strictly inside the domain, at(t) is the
\* conversion back from the blend mode of c0 + u * (c1 - c0), channel by
\* channel, where [pos0, pos1] is the segment of the stop table that holds t,
\* c0 and c1 are its colours in the blend mode and u = (t - pos0) /
\* (pos1 - pos0); for two stops over [0, 1], at(0.5) is the midpoint of the
\* two colours in the blend mode.
C25_LinearInterior ==
    LinearInside =>
        LET t == query.t
            k == CHOOSE j \in 1..(Len(positions) - 1) :
                     positions[j] < t /\ t <= positions[j + 1]
            c0 == convert_color(colors[k], mode)
            c1 == convert_color(colors[k + 1], mode)
            num == t - positions[k]
            den == positions[k + 1] - positions[k]
            blend == [ch \in 1..4 |-> c0[ch] + (num * (c1[ch] - c0[ch])) \div den]
        IN /\ \E j \in 1..(Len(positions) - 1) : positions[j] < t /\ t <= positions[j + 1]
           /\ query.out = color_from(blend, mode)
           /\ (positions = <<0, Unit>> /\ t = Unit \div 2) =>
                 query.out = interpolate_half(colors[1], colors[2], mode)

\* a gradient of three stops blended in linear light, evaluated inside its
\* second segment, where the colour is none of the stops'
C25_Witness ==
    /\ LinearInside
    /\ mode = "LinearRgb"
    /\ Len(positions) = 3
    /\ positions[2] < query.t
    /\ \A k \in 1..3 : query.out # colors[k]

\* two stops over [0, 1] blended in linear light, evaluated at 0.5
C25_MidpointWitness ==
    /\ LinearInside
    /\ mode = "LinearRgb"
    /\ positions = <<0, Unit>>
    /\ colors[1] # colors[2]
    /\ query.t = Unit \div 2


-----------------------------------------------------------------------------
(* The kernels at the stops of the table *)

\* the index of the earliest stop of the builder's table at position p
EarliestStopAt(p) ==
    CHOOSE k \in 1..Len(positions) :
        positions[k] = p /\ \A j \in 1..(k - 1) : positions[j] # p

-----------------------------------------------------------------------------
\* C27: at(t) of a GimpGradient follows the boundary contract of the linear
\* kernel: below the domain it is the left colour of the first segment,
\* above the domain the right colour of the last segment, and opaque black
\* is the answer to NaN only.
C27_GimpBoundaryContract ==
    query.op \in {"at", "at_f64"} =>
        LET first == grad.segments[1].lcolor
            last == grad.segments[Len(grad.segments)].rcolor
        IN /\ (~IsNaN(query.t) /\ query.t < grad.dmin) => query.out = first
           /\ (~IsNaN(query.t) /\ query.t > grad.dmax) => query.out = last
           /\ IsNaN(query.t) => query.out = Black


-----------------------------------------------------------------------------
(* The binary search of at() *)

\* the positions of the table the gradient g searches
TablePositions(g) ==
    IF g.kind \in {"Linear", "Sharp"} THEN [k \in 1..Len(g.stops) |-> g.stops[k].pos]
    ELSE g.positions

\* at() was asked for a number strictly inside the domain of the gradient
SearchedInside ==
    /\ query.op = "at"
    /\ grad.kind \in {"Linear", "CatmullRom", "Basis", "Sharp"}
    /\ ~IsNaN(query.t)
    /\ domain(grad)[1] < query.t
    /\ query.t < domain(grad)[2]

SearchedAtHardEdge ==
    /\ SearchedInside
    /\ \E k \in 1..(Len(TablePositions(grad)) - 1) :
        /\ TablePositions(grad)[k] = query.t
        /\ TablePositions(grad)[k + 1] = query.t

C28_SharpWitness == SearchedAtHardEdge /\ grad.kind = "Sharp"


-----------------------------------------------------------------------------
(* The table of a sharp gradient *)

\* the number of colours sharp(g, segment, ..) hands to SharpGradient::new
SharpColours(segment) == IF segment > 1 THEN segment ELSE 2

\* the k-th of them (from 1)
SharpColour(k, segment) ==
    IF segment > 1 THEN SampleOf(k - 1, segment)
    ELSE at(ret.grad, domain(ret.grad)[1])

\* the stated properties of the table of ret.grad.sharp(segment, s) and of
\* an evaluation of it
SharpTableAsStated(segment, s) ==
    LET n == SharpColours(segment)
        stops == grad.stops
        min == domain(ret.grad)[1]
        max == domain(ret.grad)[2]
        w == max - min
        c == IF s < 0 THEN 0 ELSE IF s > Unit THEN Unit ELSE s
        d == (((c * w) \div Unit) \div n) \div 4
        b(k) == min + (k * w) \div n
        t == query.t
    IN /\ Len(stops) = 2 * n
       /\ \A k \in 1..n :
            /\ stops[2 * k - 1].col = SharpColour(k, segment)
            /\ stops[2 * k].col = SharpColour(k, segment)
       /\ \A j \in 1..(2 * n - 1) : stops[j].pos <= stops[j + 1].pos
       /\ stops[1].pos = min
       /\ stops[2 * n].pos = max
       /\ \A k \in 1..(n - 1) :
            /\ stops[2 * k].pos = b(k) - d
            /\ stops[2 * k + 1].pos = b(k) + d
       /\ (query.op = "at" /\ ~IsNaN(t) /\ min < t /\ t < max) =>
            LET j == CHOOSE i \in 1..(2 * n - 1) : stops[i].pos < t /\ t <= stops[i + 1].pos
                a == stops[j].col
                z == stops[j + 1].col
                num == t - stops[j].pos
                den == stops[j + 1].pos - stops[j].pos
            IN IF j % 2 = 1 THEN query.out = a
               ELSE /\ \A ch \in 1..4 :
                        query.out[ch] =
                            a[ch] + Div((z[ch] - a[ch]) * (3 * den - 2 * num) * num * num,
                                        den * den * den)
                    /\ 2 * num = den =>
                        \A ch \in 1..4 : query.out[ch] = a[ch] + Div(z[ch] - a[ch], 2)

C29_ClampWitness ==
    /\ grad.kind = "Sharp"
    /\ grad = sharp(ret.grad, 2, 2 * Unit)
    /\ grad # sharp(ret.grad, 2, 0)

\* a parser that was never used, with the domain and the mode of p
FreshParser(p) == set_mode(set_domain(NewParser, p.dmin, p.dmax), p.mode)

\* C30: parse(s) on a parser that has parsed before, with no reset() in
\* between, returns what parse(s) returns on a fresh parser of the same domain
\* and mode: the stops of an earlier parse, successful or failed, do not show
\* in a later result.
C30_ParseRepeatable ==
    (query.op = "parse" /\ query.parses > 1)
        => query.res = parse(FreshParser(query.before), query.s).res

====
